---- MODULE Spec2Model ----
(***************************************************************************)
(* A model of the electoral-roll extraction and reconciliation code of    *)
(* wb-electoral-data.                                                      *)
(*                                                                         *)
(* Text is a sequence of characters.  A character is a one-character      *)
(* string; the only exception is "SUP2", which stands for the single      *)
(* character U+00B2 (SUPERSCRIPT TWO): Python's str.isdigit() is true of   *)
(* it while int() rejects it.  Positions are 0-based as in the Python     *)
(* source, so text[i] of the source is text[i + 1] here.                  *)
(***************************************************************************)
EXTENDS Integers, Sequences, FiniteSets, TLC

VARIABLES
    callee,      \* which decoder this call runs: "decode_text" | "TextExtractor"
    text,        \* the argument of the running call
    i,           \* decode_text: the scan position
    decoded,     \* decode_text: the list of decoded pieces
    result,      \* the returned string
    dpc,         \* "idle" | "call" | "scan" | "done" | "raised"
    prev_i,      \* decode_text: the scan position before the last iteration, -1 at entry
    pass,        \* 1 for decode(x), 2 for decode(decode(x))
    first_in,    \* the argument of the first pass
    first_out,   \* the result of the first pass
    ext_cfg      \* TextExtractor: config["extraction"]

decVars == <<callee, text, i, decoded, result, dpc, prev_i, pass, first_in,
             first_out, ext_cfg>>

VARIABLES
    epic_fn,     \* which formatter is called: "utils" | "parser"
    epic_in,     \* format_epic_number: the argument
    epic_out,    \* format_epic_number: the returned string
    epc          \* "idle" | "call" | "done"

epicVars == <<epic_fn, epic_in, epic_out, epc>>

VARIABLES
    age_parts,   \* parse_age_from_parts: parts
    age_start,   \* parse_age_from_parts: start_idx
    age_i,       \* parse_age_from_parts: the loop index
    age_out,     \* parse_age_from_parts: the returned string
    apc          \* "idle" | "loop" | "done" | "raised"

ageVars == <<age_parts, age_start, age_i, age_out, apc>>

VARIABLES
    doc,              \* extract_voter_data_from_pdf: the pages, each the lines of its text
    pg,               \* the page being processed (page_num)
    ln,               \* the line of the page being processed, from 1
    current_section,  \* current_section
    voters,           \* voters
    xpc               \* "idle" | "page" | "line" | "done" | "raised"

docVars == <<doc, pg, ln, current_section, voters, xpc>>

VARIABLES
    local_voter,  \* validate_voter: voter, a value for each compared field
    fetch,        \* how _fetch_voter_from_api ends: "payload" | "none" | "raised"
    api_data,     \* the payload it returns: a value for each compared field, and
                  \* whether the payload has other keys
    val_result,   \* validate_voter: result
    threshold,    \* self.match_threshold
    vpc           \* "idle" | "call" | "done"

valVars == <<local_voter, fetch, api_data, val_result, threshold, vpc>>

VARIABLES
    batch,         \* validate_batch: voters, each with the payload of the API and
                   \* the responses its lookup gets, attempt by attempt
    sample_size,   \* validate_batch: sample_size
    vidx,          \* the voter of voters_to_validate being processed, from 1
    attempt,       \* _fetch_voter_from_api: attempt
    fetched,       \* how the running lookup ended: "pending" | "payload" | "none" | "raised"
    report,        \* validate_batch: report
    match_scores,  \* validate_batch: match_scores
    events,        \* the requests sent and the sleeps made, in order
    bpc            \* "idle" | "loop" | "fetch" | "tally" | "done"

batchVars == <<batch, sample_size, vidx, attempt, fetched, report, match_scores, events, bpc>>

VARIABLES
    rows           \* storage.py: the rows of table voters, in the order of their ids

tableVars == <<rows>>

VARIABLES
    lastrowid,     \* insert_voter: what the last call returned
    roll,          \* the rows of the table save_voters_to_db inserts into
    roll_unique,   \* whether that table, created outside the repository, has a
                   \* uniqueness constraint on the key of a voter
    roll_raised,   \* save_voters_to_db: the last call raised sqlite3.IntegrityError
    calls          \* the calls made to the store so far

storeVars == <<lastrowid, roll, roll_unique, roll_raised, calls>>

VARIABLES
    batch_size,    \* verify_assembly_constituency: batch_size
    stats,         \* APIVerifier: self.stats
    ac_voters,     \* verify_assembly_constituency: voters
    pos,           \* the voter of voters being processed, from 1
    batch_count,   \* verify_assembly_constituency: batch_count
    now,           \* CURRENT_TIMESTAMP
    attempted,     \* the last voter processed: its id, the response to its request,
                   \* the result of verify_voter and what raised, if anything
    trace,         \* the remote calls, commits and sleeps made, in order
    committed,     \* the rows of table voters as of the last commit
    cpc            \* "idle" | "start" | "loop" | "done"

verifyVars ==
    <<batch_size, stats, ac_voters, pos, batch_count, now, attempted, trace, committed, cpc>>

VARIABLES
    dup_rows,     \* remove_exact_duplicates: the rows of table voters
    dup_before,   \* the rows of the table when remove_exact_duplicates was called
    duplicates,   \* duplicates, the groups not yet processed
    removed,      \* removed
    exact_dupes,  \* detect_duplicates: exact_dupes
    qpc           \* "idle" | "call" | "delete" | "returned" | "detected"

dupVars == <<dup_rows, dup_before, duplicates, removed, exact_dupes, qpc>>

vars ==
    <<decVars, epicVars, ageVars, docVars, valVars, batchVars, tableVars, storeVars, verifyVars,
      dupVars>>

(***************************************************************************)
(* Bounds of the model.                                                    *)
(***************************************************************************)
MaxCid == 31
MaxPieces == 3
MaxEpicPieces == 4
MaxAgeParts == 3
MaxLineTokens == 5
MaxNameLen == 2
MaxBatch == 2
MaxCalls == 2
MaxRows == 2
MaxDupRows == 4

(***************************************************************************)
(* Characters and Python string primitives.                                *)
(***************************************************************************)
UpperSeq == <<"A","B","C","D","E","F","G","H","I","J","K","L","M",
              "N","O","P","Q","R","S","T","U","V","W","X","Y","Z">>
LowerSeq == <<"a","b","c","d","e","f","g","h","i","j","k","l","m",
              "n","o","p","q","r","s","t","u","v","w","x","y","z">>
DigitSeq == <<"0","1","2","3","4","5","6","7","8","9">>

Range(s) == {s[k] : k \in DOMAIN s}

IndexIn(s, c) == CHOOSE k \in DOMAIN s : s[k] = c

\* str.isdigit() of one character: the decimal digits and U+00B2.
PyIsDigitChar(c) == c \in Range(DigitSeq) \/ c = "SUP2"

\* str.isdigit(): non-empty and every character a digit character.
PyIsDigit(s) == Len(s) > 0 /\ \A k \in DOMAIN s : PyIsDigitChar(s[k])

\* int(s) succeeds on a string that passed isdigit() iff all are decimal digits.
IntAccepts(s) == \A k \in DOMAIN s : s[k] \in Range(DigitSeq)

RECURSIVE PyInt(_)
PyInt(s) ==
    IF s = <<>> THEN 0
    ELSE 10 * PyInt(SubSeq(s, 1, Len(s) - 1)) + (IndexIn(DigitSeq, s[Len(s)]) - 1)

\* str(n) of a natural number.
RECURSIVE PyStr(_)
PyStr(n) == IF n < 10 THEN <<DigitSeq[n + 1]>>
            ELSE PyStr(n \div 10) \o <<DigitSeq[(n % 10) + 1]>>

\* text[lo:hi] of Python for 0 <= lo.
Slice(s, lo, hi) ==
    LET h == IF hi > Len(s) THEN Len(s) ELSE hi
    IN  IF lo >= h THEN <<>> ELSE SubSeq(s, lo + 1, h)

\* s.startswith(p)
StartsWith(s, p) == Len(s) >= Len(p) /\ SubSeq(s, 1, Len(p)) = p

\* text.find(c, from): the first 0-based index >= from holding c, or -1.
Find(s, c, from) ==
    LET hits == {k \in from .. (Len(s) - 1) : s[k + 1] = c}
    IN  IF hits = {} THEN -1 ELSE CHOOSE k \in hits : \A m \in hits : k <= m

\* p in s, for strings.
Contains(s, p) ==
    \E k \in 0 .. (Len(s) - Len(p)) : Slice(s, k, k + Len(p)) = p

\* ''.join(list)
RECURSIVE Flatten(_)
Flatten(l) ==
    IF l = <<>> THEN <<>>
    ELSE IF Len(l) = 1 THEN l[1]
    ELSE LET h == Len(l) \div 2
         IN  Flatten(SubSeq(l, 1, h)) \o Flatten(SubSeq(l, h + 1, Len(l)))

\* s.split(): the maximal runs of non-whitespace characters, in order.
SplitStarts(s) == {k \in DOMAIN s : s[k] # " " /\ (k = 1 \/ s[k - 1] = " ")}

SplitEnd(s, k) ==
    LET stops == {m \in k .. Len(s) : m = Len(s) \/ s[m + 1] = " "}
    IN  CHOOSE m \in stops : \A n \in stops : m <= n

Split(s) ==
    LET starts == SplitStarts(s)
        nth(j) == CHOOSE k \in starts : Cardinality({m \in starts : m < k}) = j - 1
    IN  [j \in 1 .. Cardinality(starts) |-> SubSeq(s, nth(j), SplitEnd(s, nth(j)))]

\* ' '.join(parts)
RECURSIVE JoinSpace(_)
JoinSpace(parts) ==
    IF parts = <<>> THEN <<>>
    ELSE IF Len(parts) = 1 THEN parts[1]
    ELSE parts[1] \o <<" ">> \o JoinSpace(Tail(parts))

(***************************************************************************)
(* scripts/extract_voters_universal.py: decode_text                        *)
(***************************************************************************)
char_map ==
    ("D" :> "a" @@ "E" :> "b" @@ "F" :> "c" @@ "G" :> "d" @@ "H" :> "e" @@
     "I" :> "f" @@ "J" :> "g" @@ "K" :> "h" @@ "L" :> "i" @@ "M" :> "j" @@
     "N" :> "k" @@ "O" :> "l" @@ "P" :> "m" @@ "Q" :> "n" @@ "R" :> "o" @@
     "S" :> "p" @@ "T" :> "q" @@ "U" :> "r" @@ "V" :> "s" @@ "W" :> "t" @@
     "X" :> "u" @@ "Y" :> "v" @@ "Z" :> "w" @@
     "$" :> "A" @@ "%" :> "B" @@ "&" :> "C" @@ "'" :> "D" @@ "(" :> "E" @@
     ")" :> "F" @@ "*" :> "G" @@ "+" :> "H" @@ "," :> "I" @@ "-" :> "J" @@
     "." :> "K" @@ "/" :> "L" @@ "0" :> "M" @@ "1" :> "N" @@ "2" :> "O" @@
     "3" :> "P" @@ "4" :> "Q" @@ "5" :> "R" @@ "6" :> "S" @@ "7" :> "T" @@
     "8" :> "U" @@ "9" :> "V" @@ ":" :> "W" @@ "\\" :> "y")

CidPrefix == <<"(", "c", "i", "d", ":">>
CidWPrefix == <<"(", "c", "i", "d", "W">>

\* text[i:i+5].startswith('(cid:') or text[i:i+6].startswith('(cidW')
IsCidStart(t, k) ==
    \/ StartsWith(Slice(t, k, k + 5), CidPrefix)
    \/ StartsWith(Slice(t, k, k + 6), CidWPrefix)

\* end = text.find(')', i)
CidEnd(t, k) == Find(t, ")", k)

\* the branch of line 58 is taken and a closing parenthesis exists
IsGroupAt(t, k) == IsCidStart(t, k) /\ CidEnd(t, k) # -1

cid_content(t, k) ==
    IF StartsWith(Slice(t, k, k + 5), CidPrefix)
    THEN Slice(t, k + 5, CidEnd(t, k))
    ELSE Slice(t, k + 6, CidEnd(t, k))

\* The if/elif chain of lines 67-80: what is appended for the number num.
CidImage(num) ==
    IF num = 18 THEN <<"/">>
    ELSE IF num = 17 THEN <<".">>
    ELSE IF 19 <= num /\ num <= 28 THEN PyStr(num - 19)
    ELSE IF num = 15 THEN <<" ">>
    ELSE IF num = 16 THEN <<"/">>
    ELSE IF num = 29 THEN <<":">>
    ELSE <<>>

\* A decoder whose table lacks the backslash entry.
CharImageNoBackslash(c) ==
    IF c \in DOMAIN char_map \ {"\\"} THEN char_map[c] ELSE c

\* A decoder that shifts the lowercase letters d..z by three as well.
CharImageShiftLower(c) ==
    IF c \in DOMAIN char_map THEN char_map[c]
    ELSE IF c \in {LowerSeq[k] : k \in 4..26} THEN LowerSeq[IndexIn(LowerSeq, c) - 3]
    ELSE c

\* Lines 85-91: the image of a character outside a group.
CharImage(c) == IF c \in DOMAIN char_map THEN char_map[c] ELSE c

\* int(cid_content) raises ValueError
GroupRaises(t, k) ==
    IsGroupAt(t, k) /\ PyIsDigit(cid_content(t, k)) /\ ~IntAccepts(cid_content(t, k))

\* One iteration of the while loop at position k with the list d: <<k', d'>>.
LoopBody(t, k, d) ==
    IF IsGroupAt(t, k)
    THEN IF PyIsDigit(cid_content(t, k))
         THEN <<CidEnd(t, k) + 1, Append(d, CidImage(PyInt(cid_content(t, k))))>>
         ELSE <<CidEnd(t, k) + 1, d>>
    ELSE <<k + 1, Append(d, <<CharImage(t[k + 1])>>)>>

\* Lines 95-98: join, then collapse whitespace.
Finish(d) == JoinSpace(Split(Flatten(d)))

\* Lines 56-93: the iterations of the while loop that start at a position
\* below hi, from the loop state st = [raised, i, val] with st.i >= lo.  The
\* iterations run in order, grouped by halves of lo .. hi - 1.
RECURSIVE DecodeFrom(_, _, _, _)
DecodeFrom(t, st, lo, hi) ==
    IF st.raised \/ st.i >= hi THEN st
    ELSE IF hi - lo <= 1
    THEN IF GroupRaises(t, st.i) THEN [raised |-> TRUE, i |-> st.i, val |-> <<>>]
         ELSE LET step == LoopBody(t, st.i, st.val)
              IN  [raised |-> FALSE, i |-> step[1], val |-> step[2]]
    ELSE LET mid == (lo + hi) \div 2
         IN  DecodeFrom(t, DecodeFrom(t, st, lo, mid), mid, hi)

\* decode_text as a function: [raised, val].
decode_text(t) ==
    IF t = <<>> THEN [raised |-> FALSE, val |-> <<>>]
    ELSE LET loop == DecodeFrom(t, [raised |-> FALSE, i |-> 0, val |-> <<>>], 0, Len(t))
         IN  IF loop.raised THEN [raised |-> TRUE, val |-> <<>>]
             ELSE [raised |-> FALSE, val |-> Finish(loop.val)]

(***************************************************************************)
(* src/extractor.py: TextExtractor                                         *)
(***************************************************************************)
EmptyMap == [c \in {} |-> <<>>]

\* _build_cid_mappings: the configured entries, then 'cid:19'..'cid:28',
\* 'cid:17' and 'cid:18'.  A key is the digit string as written in the text.
build_cid_mappings(configured) ==
    ([k \in {PyStr(19 + d) : d \in 0..9} |-> PyStr(PyInt(k) - 19)] @@
     (<<"1","7">> :> <<".">> @@ <<"1","8">> :> <<"/">>)) @@ configured

\* The run of decimal digits of t from 0-based position k (regex \d+, greedy).
RECURSIVE DigitRun(_, _)
DigitRun(t, k) ==
    IF k < Len(t) /\ t[k + 1] \in Range(DigitSeq)
    THEN <<t[k + 1]>> \o DigitRun(t, k + 1)
    ELSE <<>>

\* r'\(cid:(\d+)\)' matches at position k
CidPatternAt(t, k) ==
    /\ StartsWith(Slice(t, k, k + 5), CidPrefix)
    /\ DigitRun(t, k + 5) # <<>>
    /\ Slice(t, k + 5 + Len(DigitRun(t, k + 5)), k + 6 + Len(DigitRun(t, k + 5))) = <<")">>

\* re.sub(cid_pattern, replace_cid, text) from position k
RECURSIVE ReSubCid(_, _, _)
ReSubCid(t, k, cm) ==
    IF k >= Len(t) THEN <<>>
    ELSE IF CidPatternAt(t, k)
    THEN LET run == DigitRun(t, k + 5)
             whole == Slice(t, k, k + 6 + Len(run))
         IN  (IF run \in DOMAIN cm THEN cm[run] ELSE whole)
             \o ReSubCid(t, k + 6 + Len(run), cm)
    ELSE <<t[k + 1]>> \o ReSubCid(t, k + 1, cm)

\* Step 2: every character through char_mappings.get(char, char)
MapChars(t, chm) == [k \in DOMAIN t |-> IF t[k] \in DOMAIN chm THEN chm[t[k]] ELSE t[k]]

TextExtractor_decode_text(t, cfg) ==
    IF t = <<>> THEN <<>>
    ELSE MapChars(ReSubCid(t, 0, build_cid_mappings(cfg.cid_mappings)), cfg.char_mappings)

(***************************************************************************)
(* src/utils.py and src/parser.py: format_epic_number                      *)
(***************************************************************************)
\* str.upper() on the letters a..z; every other character is unchanged.
UpperChar(c) == IF c \in Range(LowerSeq) THEN UpperSeq[IndexIn(LowerSeq, c)] ELSE c

Upper(s) == [k \in DOMAIN s |-> UpperChar(s[k])]

\* str.lower() on the letters A..Z.
LowerChar(c) == IF c \in Range(UpperSeq) THEN LowerSeq[IndexIn(UpperSeq, c)] ELSE c

Lower(s) == [k \in DOMAIN s |-> LowerChar(s[k])]

\* s.replace(c, '') for a single character c
RECURSIVE RemoveChar(_, _)
RemoveChar(s, c) ==
    IF s = <<>> THEN <<>>
    ELSE (IF Head(s) = c THEN <<>> ELSE <<Head(s)>>) \o RemoveChar(Tail(s), c)

WB == <<"W", "B">>

\* The remainder is split in two only from this length on.
EpicMinLen == 11

\* A formatter that groups remainders one character shorter as well.
EpicBodyShortSplit(e) ==
    IF Len(e) >= EpicMinLen - 1
    THEN WB \o <<"/">> \o Slice(e, 0, 2) \o <<"/">> \o Slice(e, 2, 5) \o <<"/">>
         \o Slice(e, 5, Len(e))
    ELSE WB \o <<"/">> \o e

\* utils.py lines 167-176 (parser.py lines 249-257): format the remainder.
EpicBody(e) ==
    IF Len(e) >= EpicMinLen
    THEN WB \o <<"/">> \o Slice(e, 0, 2) \o <<"/">> \o Slice(e, 2, 5) \o <<"/">>
         \o Slice(e, 5, Len(e))
    ELSE WB \o <<"/">> \o e

\* utils.py lines 161-165: remove formatting and the WB prefix.
EpicStrip(epic) ==
    LET e == RemoveChar(RemoveChar(Upper(epic), "/"), " ")
    IN  IF StartsWith(e, WB) THEN Slice(e, 2, Len(e)) ELSE e

\* parser.py lines 243-247: the same with the two replace calls swapped.
ParserEpicStrip(epic) ==
    LET e == RemoveChar(RemoveChar(Upper(epic), " "), "/")
    IN  IF StartsWith(e, WB) THEN Slice(e, 2, Len(e)) ELSE e

utils_format_epic_number(epic) == EpicBody(EpicStrip(epic))

VoterParser_format_epic_number(epic) ==
    IF epic = <<>> THEN <<>> ELSE EpicBody(ParserEpicStrip(epic))

(***************************************************************************)
(* scripts/extract_voters_universal.py: parse_age_from_parts               *)
(***************************************************************************)
CidWColon == CidWPrefix \o <<":">>

\* r'\(cid[W]?:(\d+)\)' matches at position k: the length of the match, or 0.
CidRefLenAt(t, k) ==
    LET pre == IF StartsWith(Slice(t, k, k + 5), CidPrefix) THEN 5
               ELSE IF StartsWith(Slice(t, k, k + 6), CidWColon) THEN 6
               ELSE 0
        run == DigitRun(t, k + pre)
    IN  IF pre > 0 /\ run # <<>> /\ Slice(t, k + pre + Len(run), k + pre + Len(run) + 1) = <<")">>
        THEN pre + Len(run) + 1
        ELSE 0

CidRefNumAt(t, k) ==
    LET pre == IF StartsWith(Slice(t, k, k + 5), CidPrefix) THEN 5 ELSE 6
    IN  PyInt(DigitRun(t, k + pre))

\* re.findall(r'\(cid[W]?:(\d+)\)', part), as numbers
RECURSIVE FindAllCid(_, _)
FindAllCid(t, k) ==
    IF k >= Len(t) THEN <<>>
    ELSE IF CidRefLenAt(t, k) > 0
    THEN <<CidRefNumAt(t, k)>> \o FindAllCid(t, k + CidRefLenAt(t, k))
    ELSE FindAllCid(t, k + 1)

\* re.sub(r'\(cid[W]?:\d+\)', '', part)
RECURSIVE StripCid(_, _)
StripCid(t, k) ==
    IF k >= Len(t) THEN <<>>
    ELSE IF CidRefLenAt(t, k) > 0 THEN StripCid(t, k + CidRefLenAt(t, k))
    ELSE <<t[k + 1]>> \o StripCid(t, k + 1)

MinAge == 18
MaxAge == 120

\* An age check that lets 17 through.
AgeInRangeFrom17(n) == MinAge - 1 <= n /\ n <= MaxAge

\* 18 <= age <= 120
AgeInRange(n) == MinAge <= n /\ n <= MaxAge

\* Lines 111-114: CID 19..28 map to 0..9, any other number is kept.
CidDigit(n) == IF 19 <= n /\ n <= 28 THEN n - 19 ELSE n

\* Lines 106-115: the value of the pair of indexed codes of a part, or -1
\* when the part holds fewer than two.
PairAge(part) ==
    LET cids == FindAllCid(part, 0)
    IN  IF Len(cids) >= 2 THEN CidDigit(cids[1]) * 10 + CidDigit(cids[2]) ELSE -1

\* Line 120: the part without its indexed codes.
Cleaned(part) == StripCid(part, 0)

\* Line 122: int(cleaned) raises ValueError
CleanedRaises(part) == PyIsDigit(Cleaned(part)) /\ ~IntAccepts(Cleaned(part))

\* Lines 121-122: the number the cleaned part is, or -1 when it is none.
CleanedAge(part) ==
    IF PyIsDigit(Cleaned(part)) /\ IntAccepts(Cleaned(part)) THEN PyInt(Cleaned(part))
    ELSE -1

\* One iteration of the loop on a part: "return", "raise" or "next", with
\* the value returned.
AgeStep(part) ==
    IF PairAge(part) >= 0 /\ AgeInRange(PairAge(part))
    THEN [what |-> "return", val |-> PyStr(PairAge(part))]
    ELSE IF CleanedRaises(part) THEN [what |-> "raise", val |-> <<>>]
    ELSE IF CleanedAge(part) >= 0 /\ AgeInRange(CleanedAge(part))
    THEN [what |-> "return", val |-> PyStr(CleanedAge(part))]
    ELSE [what |-> "next", val |-> <<>>]

\* parse_age_from_parts as a function: [raised, val].
RECURSIVE parse_age_from_parts(_, _)
parse_age_from_parts(parts, k) ==
    IF k >= Len(parts) THEN [raised |-> FALSE, val |-> <<>>]
    ELSE IF AgeStep(parts[k + 1]).what = "return"
    THEN [raised |-> FALSE, val |-> AgeStep(parts[k + 1]).val]
    ELSE IF AgeStep(parts[k + 1]).what = "raise" THEN [raised |-> TRUE, val |-> <<>>]
    ELSE parse_age_from_parts(parts, k + 1)

(***************************************************************************)
(* scripts/extract_voters_universal.py: extract_voter_data_from_pdf        *)
(***************************************************************************)
s_OHFWRU == <<"O", "H", "F", "W", "R", "U">>
s_HODWLRQ == <<"H", "O", "D", "W", "L", "R", "Q">>
s_6HFWLRQ == <<"6", "H", "F", "W", "L", "R", "Q">>
s_Section == <<"S", "e", "c", "t", "i", "o", "n">>
s_section == <<"s", "e", "c", "t", "i", "o", "n">>
e_Father == <<")", "D", "W", "K", "H", "U">>
e_Husband == <<"+", "X", "V", "E", "D", "Q", "G">>
e_Mother == <<"0", "R", "W", "K", "H", "U">>
e_Wife == <<":", "L", "I", "H">>
s_Father == <<"F", "a", "t", "h", "e", "r">>
s_Husband == <<"H", "u", "s", "b", "a", "n", "d">>
s_Mother == <<"M", "o", "t", "h", "e", "r">>
s_father == <<"f", "a", "t", "h", "e", "r">>
s_husband == <<"h", "u", "s", "b", "a", "n", "d">>
s_mother == <<"m", "o", "t", "h", "e", "r">>
s_wife == <<"w", "i", "f", "e">>
s_paren_father == <<")", "f", "a", "t", "h", "e", "r">>

\* s.replace(p, ''): every non-overlapping occurrence of p removed, left to right
RECURSIVE Remove(_, _)
Remove(t, p) ==
    IF Len(t) < Len(p) THEN t
    ELSE IF StartsWith(t, p) THEN Remove(Slice(t, Len(p), Len(t)), p)
    ELSE <<Head(t)>> \o Remove(Tail(t), p)

\* Line 187: a header line
IsHeaderLine(line) == Contains(line, s_OHFWRU) \/ Contains(line, s_HODWLRQ)

\* Line 191, the two tests on the raw line
IsRawSectionLine(line) == Contains(line, s_6HFWLRQ) \/ Contains(line, s_Section)

\* Lines 196-198: the line holds a relationship marker
RawGateMarkers == {e_Father, e_Husband, e_Mother, s_Father, s_Husband, s_Mother}

DecodedGateMarkers == {s_paren_father, s_husband}

HasMarker(line) ==
    \/ {m \in RawGateMarkers : Contains(line, m)} # {}
    \/ {m \in DecodedGateMarkers : Contains(Lower(decode_text(line).val), m)} # {}

\* The fewest parts a voter line has (line 202).
MinParts == 5

\* A threshold one part lower than that of line 202.
EnoughPartsFrom4(parts) == Len(parts) >= MinParts - 1

\* Line 202: the line has the parts of a voter line
EnoughParts(parts) == Len(parts) >= MinParts

\* Lines 206-208: the serial number
SerialNo(parts) ==
    LET plain == Remove(Remove(Remove(parts[1], CidPrefix), CidWColon), <<")">>)
    IN  IF Contains(plain, <<"(">>) THEN StripCid(parts[1] \o parts[2], 0) ELSE plain

\* Line 216: the part holds one of the six markers of the name search
HasNameMarker(part) ==
    \/ Contains(part, e_Father) \/ Contains(part, e_Husband) \/ Contains(part, e_Mother)
    \/ Contains(part, s_Father) \/ Contains(part, s_Husband) \/ Contains(part, s_Mother)

\* Lines 214-218: rel_start_idx, 0-based, -1 when no part from index 2 matches
RelStartIdx(parts) ==
    LET hits == {j \in 2 .. (Len(parts) - 1) : HasNameMarker(parts[j + 1])}
    IN  IF hits = {} THEN -1 ELSE CHOOSE j \in hits : \A m \in hits : j <= m

\* Lines 221-224
VoterNameEncoded(parts) ==
    IF RelStartIdx(parts) > 2 THEN JoinSpace(SubSeq(parts, 3, RelStartIdx(parts)))
    ELSE IF Len(parts) > 2 THEN parts[3] ELSE <<>>

\* Lines 231-247: the relationship a part resolves to, "" when none
RelOfPart(part) ==
    LET d == Lower(decode_text(part).val)
    IN  IF Contains(part, e_Father) \/ Contains(d, s_father) THEN "Father"
        ELSE IF Contains(part, e_Husband) \/ Contains(d, s_husband) THEN "Husband"
        ELSE IF Contains(part, e_Mother) \/ Contains(d, s_mother) THEN "Mother"
        ELSE IF Contains(part, e_Wife) \/ Contains(d, s_wife) THEN "Wife"
        ELSE ""

\* Lines 228-247: the loop from 0-based index j: [raised, relationship, rel_idx]
RECURSIVE RelScan(_, _)
RelScan(parts, j) ==
    IF j >= Len(parts) THEN [raised |-> FALSE, relationship |-> "", rel_idx |-> -1]
    ELSE IF decode_text(parts[j + 1]).raised
    THEN [raised |-> TRUE, relationship |-> "", rel_idx |-> -1]
    ELSE IF RelOfPart(parts[j + 1]) # ""
    THEN [raised |-> FALSE, relationship |-> RelOfPart(parts[j + 1]), rel_idx |-> j]
    ELSE RelScan(parts, j + 1)

SexMarkers == {<<"0">>, <<")">>, <<"M">>, <<"F">>}

\* Lines 254-258: sex_idx, -1 when none
SexIdx(parts, rel_idx) ==
    LET hits == {j \in (rel_idx + 1) .. (Len(parts) - 1) :
                    parts[j + 1] \in SexMarkers /\ j > rel_idx + 1}
    IN  IF hits = {} THEN -1 ELSE CHOOSE j \in hits : \A m \in hits : j <= m

\* Lines 250-263
RelationNameEncoded(parts, rel_idx) ==
    IF rel_idx # -1 /\ rel_idx + 1 < Len(parts)
    THEN IF SexIdx(parts, rel_idx) > rel_idx + 1
         THEN JoinSpace(SubSeq(parts, rel_idx + 2, SexIdx(parts, rel_idx)))
         ELSE parts[rel_idx + 2]
    ELSE <<>>

\* Lines 269-280: what part j says about the sex, "" when nothing
SexOfPart(parts, j) ==
    IF parts[j + 1] = <<"0">> /\ j > 0 /\ Len(parts[j]) > 2 THEN "M"
    ELSE IF parts[j + 1] = <<")">> /\ j > 0 /\ Len(parts[j]) > 2 THEN "F"
    ELSE IF parts[j + 1] = <<"M">> THEN "M"
    ELSE IF parts[j + 1] = <<"F">> THEN "F"
    ELSE ""

\* Lines 267-280
Sex(parts) ==
    LET hits == {j \in 0 .. (Len(parts) - 1) : SexOfPart(parts, j) # ""}
    IN  IF hits = {} THEN ""
        ELSE SexOfPart(parts, CHOOSE j \in hits : \A m \in hits : j <= m)

\* Lines 133 and 137: the part looks like an EPIC number
IsEpicPart(part) ==
    \/ Contains(part, WB) \/ Contains(part, <<":", "%", "(", "c", "i", "d", ":", "1", "8", ")">>)
    \/ Contains(part, <<"W", "B", "(", "c", "i", "d", ":", "1", "8", ")">>) \/ Contains(part, <<"W", "B", "(", "c", "i", "d", "W">>)
    \/ Contains(part, <<".", "1">>) \/ Contains(part, <<".", "N">>) \/ Contains(part, <<"D", "K", "N">>)

\* parse_epic_from_parts: [raised, val]
RECURSIVE parse_epic_from_parts(_, _)
parse_epic_from_parts(parts, k) ==
    IF k >= Len(parts) THEN [raised |-> FALSE, val |-> <<>>]
    ELSE IF IsEpicPart(parts[k + 1]) THEN decode_text(parts[k + 1])
    ELSE parse_epic_from_parts(parts, k + 1)

\* Lines 283 and 286: where the age and EPIC searches start
FieldStart(rel_idx) == IF rel_idx # -1 THEN rel_idx + 2 ELSE 3

\* Lines 288-305: the record of the line once its fields are known, and
\* whether it is appended: [raised, emit, voter].  raised says that one of the
\* calls that computed the fields raised ValueError.
VoterRecord(parts, section, page_number, name_enc, name, rel, relname_enc, relname, age, epic) ==
    IF name.raised \/ rel.raised \/ relname.raised \/ age.raised \/ epic.raised
    THEN [raised |-> TRUE, emit |-> FALSE, voter |-> <<>>]
    ELSE [raised |-> FALSE,
          emit |-> (name.val # <<>> /\ rel.relationship # ""),
          voter |-> [section_info |-> section,
                     sl_no |-> SerialNo(parts),
                     house_no |-> parts[2],
                     voter_name |-> name.val,
                     voter_name_encoded |-> name_enc,
                     relationship |-> rel.relationship,
                     relation_name |-> relname.val,
                     relation_name_encoded |-> relname_enc,
                     sex |-> Sex(parts),
                     age |-> age.val,
                     epic_no |-> epic.val,
                     page_number |-> page_number]]

\* Lines 250-264: relation_name, decoded only when a relationship was found
\* before the last part
RelationName(parts, rel_idx, relname_enc) ==
    IF rel_idx # -1 /\ rel_idx + 1 < Len(parts) THEN decode_text(relname_enc)
    ELSE [raised |-> FALSE, val |-> <<>>]

\* Lines 225, 264, 283 and 286: the decoded names, the age and the EPIC number
VoterAfterRel(parts, section, page_number, name_enc, rel, relname_enc) ==
    VoterRecord(parts, section, page_number, name_enc, decode_text(name_enc), rel,
                relname_enc, RelationName(parts, rel.rel_idx, relname_enc),
                parse_age_from_parts(parts, FieldStart(rel.rel_idx)),
                parse_epic_from_parts(parts, FieldStart(rel.rel_idx)))

\* Lines 221-224 and 250-263: the two encoded names
VoterWithRel(parts, section, page_number, rel) ==
    VoterAfterRel(parts, section, page_number, VoterNameEncoded(parts), rel,
                  RelationNameEncoded(parts, rel.rel_idx))

\* Lines 200-309 on the parts of a line that passed the marker test:
\* [raised, emit, voter].
VoterOfParts(parts, section, page_number) ==
    VoterWithRel(parts, section, page_number, RelScan(parts, 0))

(***************************************************************************)
(* src/validator.py: DataValidator                                         *)
(***************************************************************************)
\* Line 46: compare_fields when the configuration names none
compare_fields == <<"epic_no", "name", "age">>

\* Line 45: match_threshold when the configuration names none, 0.95.  Scores
\* are fractions [n, d] in lowest terms.
match_threshold == [n |-> 19, d |-> 20]

\* The values a key of a voter dictionary can have: the key is missing, its
\* value is None, or its value is a string.
Missing == [kind |-> "missing", s |-> <<>>]
Null == [kind |-> "null", s |-> <<>>]
Str(x) == [kind |-> "str", s |-> x]

\* str(d.get(field, '')): '' for a missing key, 'None' for None
StrOfGet(v) ==
    IF v.kind = "missing" THEN <<>>
    ELSE IF v.kind = "null" THEN <<"N", "o", "n", "e">>
    ELSE v.s

\* s.strip()
RECURSIVE LStrip(_)
LStrip(x) == IF x # <<>> /\ Head(x) = " " THEN LStrip(Tail(x)) ELSE x

RECURSIVE RStrip(_)
RStrip(x) == IF x # <<>> /\ x[Len(x)] = " " THEN RStrip(SubSeq(x, 1, Len(x) - 1)) ELSE x

Strip(x) == RStrip(LStrip(x))

\* Lines 174-175: str(...).strip().upper()
Normalized(v) == Upper(Strip(StrOfGet(v)))

\* bool(value) of a dictionary value
Truthy(v) == v.kind = "str" /\ v.s # <<>>

\* Fractions
RECURSIVE Gcd(_, _)
Gcd(a, b) == IF b = 0 THEN a ELSE Gcd(b, a % b)

Frac(n, d) == IF n = 0 THEN [n |-> 0, d |-> 1] ELSE [n |-> n \div Gcd(n, d), d |-> d \div Gcd(n, d)]

FracAdd(x, y) == Frac(x.n * y.d + y.n * x.d, x.d * y.d)

\* A comparison that leaves equality out.
FracGt(x, y) == x.n * y.d > y.n * x.d

FracGe(x, y) == x.n * y.d >= y.n * x.d

Zero == Frac(0, 1)
One == Frac(1, 1)

\* difflib.SequenceMatcher.find_longest_match on whole strings: <<i, j, k>>,
\* the longest common block a[i : i + k] = b[j : j + k], the earliest in a and
\* then in b among the longest; k = 0 when there is none.
LongestMatch(a, b) ==
    LET blocks == {<<p, q, k>> \in (0 .. Len(a)) \X (0 .. Len(b)) \X (1 .. Len(a)) :
                      /\ p + k <= Len(a) /\ q + k <= Len(b)
                      /\ SubSeq(a, p + 1, p + k) = SubSeq(b, q + 1, q + k)}
    IN  IF blocks = {} THEN <<0, 0, 0>>
        ELSE CHOOSE m \in blocks : \A o \in blocks :
                \/ m[3] > o[3]
                \/ m[3] = o[3] /\ m[1] < o[1]
                \/ m[3] = o[3] /\ m[1] = o[1] /\ m[2] <= o[2]

\* The number of matched characters of get_matching_blocks: the longest
\* block, then the same to its left and to its right.
RECURSIVE Matches(_, _)
Matches(a, b) ==
    IF a = <<>> \/ b = <<>> THEN 0
    ELSE LET m == LongestMatch(a, b)
         IN  IF m[3] = 0 THEN 0
             ELSE m[3] + Matches(SubSeq(a, 1, m[1]), SubSeq(b, 1, m[2]))
                       + Matches(SubSeq(a, m[1] + m[3] + 1, Len(a)),
                                 SubSeq(b, m[2] + m[3] + 1, Len(b)))

\* SequenceMatcher(None, a, b).ratio(): 2.0 * matches / (len(a) + len(b))
Ratio(a, b) == IF Len(a) + Len(b) = 0 THEN One ELSE Frac(2 * Matches(a, b), Len(a) + Len(b))

\* Lines 181-186: the score of one compared field
FieldScore(field, local_value, api_value) ==
    IF field \in {"age", "epic_no"}
    THEN (IF local_value = api_value THEN One ELSE Zero)
    ELSE Ratio(local_value, api_value)

\* Lines 177-178: the field is compared
IsCompared(local, api, field) == Normalized(local[field]) # <<>> /\ Normalized(api[field]) # <<>>

RECURSIVE FracSum(_)
FracSum(scores) == IF scores = <<>> THEN Zero ELSE FracAdd(Head(scores), FracSum(Tail(scores)))

\* sum(scores) / len(scores)
Mean(scores) ==
    IF scores = <<>> THEN Zero
    ELSE Frac(FracSum(scores).n, FracSum(scores).d * Len(scores))

\* _calculate_match_score
calculate_match_score(local, api) ==
    LET fields == SelectSeq(compare_fields, LAMBDA f : IsCompared(local, api, f))
    IN  Mean([k \in DOMAIN fields |->
                FieldScore(fields[k], Normalized(local[fields[k]]), Normalized(api[fields[k]]))])

\* d.get(field): None for a missing key
Get(v) == IF v.kind = "missing" THEN Null ELSE v

\* _find_differences
find_differences(local, api) ==
    LET fields == SelectSeq(compare_fields, LAMBDA f : Get(local[f]) # Get(api[f]))
    IN  [k \in DOMAIN fields |->
            [field |-> fields[k], local |-> Get(local[fields[k]]), api |-> Get(api[fields[k]])]]

\* The payload is an empty dictionary
EmptyPayload == [epic_no |-> Missing, name |-> Missing, age |-> Missing, other |-> FALSE]

\* bool(api_data) of a payload
PayloadTruthy(api) == api # EmptyPayload

\* Lines 61-67: result as validate_voter creates it
InitialResult ==
    [valid |-> FALSE, match_score |-> Zero, api_data |-> "None", differences |-> <<>>,
     error |-> "None"]

\* validate_voter as a function of the voter, of how the lookup ended and of
\* the payload: the result
validate_voter(voter, lookup, api, th) ==
    IF ~Truthy(voter.epic_no)
    THEN [InitialResult EXCEPT !.error = "No EPIC number to validate"]
    ELSE IF lookup = "raised" THEN [InitialResult EXCEPT !.error = "str(e)"]
    ELSE IF lookup = "raised_blank" THEN [InitialResult EXCEPT !.error = ""]
    ELSE IF lookup = "none" \/ ~PayloadTruthy(api)
    THEN [InitialResult EXCEPT !.error = "Voter not found in API"]
    ELSE [valid |-> FracGe(calculate_match_score(voter, api), th),
          match_score |-> calculate_match_score(voter, api),
          api_data |-> "payload",
          differences |-> find_differences(voter, api),
          error |-> "None"]

\* Line 36: retry_attempts when the configuration names none
retry_attempts == 3

\* What one request of _fetch_voter_from_api meets (lines 128-155):
\*   "success"            status 200 and data['status'] == 'success'
\*   "failure"            status 200 and another data['status']
\*   "not_found"          status 404
\*   "server_error"       any other status
\*   "request_exception"  a RequestException, a timeout included
\*   "other_exception"    an exception that is no RequestException
\*   "blank_exception"    such an exception whose str() is the empty string
Responses ==
    {"success", "failure", "not_found", "server_error", "request_exception",
     "other_exception", "blank_exception"}

\* Lines 143-155: the response makes the loop go on to the next attempt
IsRetried(response) == response \in {"server_error", "request_exception"}

\* Lines 135-145 and 157: how the lookup ends on a response that ends it
LookupEnd(response) ==
    IF response = "success" THEN "payload"
    ELSE IF response = "other_exception" THEN "raised"
    ELSE IF response = "blank_exception" THEN "raised_blank"
    ELSE "none"

\* Lines 247-255: report as validate_batch creates it
InitialReport(n) ==
    [total_voters |-> n, validated |-> 0, valid |-> 0, invalid |-> 0, errors |-> 0,
     avg_match_score |-> Zero, validation_rate |-> Zero, results |-> <<>>]

\* vs[:size] of Python: a negative size counts from the end of the list
SliceTo(vs, size) ==
    IF size >= 0 THEN SubSeq(vs, 1, size)
    ELSE IF Len(vs) + size > 0 THEN SubSeq(vs, 1, Len(vs) + size)
    ELSE <<>>

\* Line 240: voters_to_validate
voters_to_validate(vs, size) ==
    IF Len(vs) > size THEN SliceTo(vs, size) ELSE vs

\* Line 264: result['error'] is truthy, neither None nor the empty string
HasError(res) == res.error \notin {"None", ""}

\* Lines 262-274: the report after the result of one voter
Tally(rep, voter, res) ==
    [rep EXCEPT !.validated = @ + 1,
                !.errors = IF HasError(res) THEN @ + 1 ELSE @,
                !.valid = IF ~HasError(res) /\ res.valid THEN @ + 1 ELSE @,
                !.invalid = IF ~HasError(res) /\ ~res.valid THEN @ + 1 ELSE @,
                !.results = Append(@, [voter |-> voter, result |-> res])]

\* A value of Python or of a column that may be None or NULL: the empty
\* sequence for None and for NULL, <<v>> for the value v
None == <<>>
Some(v) == <<v>>

\* storage.py lines 381-384 and 395: the columns of UNIQUE(...)
KeyColumns == {"epic_number", "ac_number", "part_number", "serial_number"}

\* SQLite compares the columns of a UNIQUE constraint with NULL distinct from
\* every value, NULL included
SqlSame(x, y) == x # None /\ y # None /\ x = y

\* Line 395: an INSERT of voter_data violates the constraint because of row r
Conflicts(r, voter_data) == \A c \in KeyColumns : SqlSame(r[c], voter_data[c])

\* Lines 379-395: the row an INSERT creates: id is AUTOINCREMENT, the three
\* verification columns take their DEFAULT NULL
NewRow(id, voter_data) ==
    [id |-> id,
     epic_number |-> voter_data.epic_number, ac_number |-> voter_data.ac_number,
     part_number |-> voter_data.part_number, serial_number |-> voter_data.serial_number,
     name |-> voter_data.name,
     verified |-> None, verification_date |-> None, api_data |-> None]

\* Lines 418-449: insert_voter, the table afterwards and the value returned
insert_voter(table, voter_data) ==
    IF \E k \in 1 .. Len(table) : Conflicts(table[k], voter_data)
    THEN [rows |-> table, returned |-> None]
    ELSE [rows |-> Append(table, NewRow(Len(table) + 1, voter_data)),
          returned |-> Some(Len(table) + 1)]

\* extract_voters_universal.py lines 317-333: the loop of save_voters_to_db
\* from voter k on: a plain INSERT for each voter; when the table has the
\* constraint, the INSERT of a stored key raises and ends the call, the rows
\* inserted before it staying in the table
RECURSIVE SaveFrom(_, _, _, _)
SaveFrom(table, vs, k, unique) ==
    IF k > Len(vs) THEN [rows |-> table, raised |-> FALSE]
    ELSE IF unique /\ \E n \in 1 .. Len(table) : Conflicts(table[n], vs[k])
    THEN [rows |-> table, raised |-> TRUE]
    ELSE SaveFrom(Append(table, NewRow(Len(table) + 1, vs[k])), vs, k + 1, unique)

save_voters_to_db(table, vs, unique) == SaveFrom(table, vs, 1, unique)

\* json.dumps: the text that encodes a dictionary, a value of another type
\* than the dictionary
json_dumps(d) == [json |-> d]

\* An UPDATE without its WHERE clause, which keeps the payload of a row when
\* the attempt has none
MarkEveryRow(table, voter_id, is_verified, payload, timestamp) ==
    [k \in DOMAIN table |->
        [table[k] EXCEPT
            !.verified = Some(is_verified),
            !.verification_date = Some(timestamp),
            !.api_data = IF payload # None /\ payload[1].has_keys
                         THEN Some(json_dumps(payload[1])) ELSE @]]

\* storage.py lines 470-492: mark_voter_verified, the table afterwards;
\* timestamp is CURRENT_TIMESTAMP
mark_voter_verified(table, voter_id, is_verified, payload, timestamp) ==
    [k \in DOMAIN table |->
        IF table[k].id = voter_id
        THEN [table[k] EXCEPT
                !.verified = Some(is_verified),
                !.verification_date = Some(timestamp),
                !.api_data = IF payload # None /\ payload[1].has_keys
                             THEN Some(json_dumps(payload[1])) ELSE None]
        ELSE table[k]]

\* storage.py line 466, ORDER BY part_number, serial_number: row x comes
\* before row y (rows of one part and serial number in the order of their ids)
RowBefore(x, y) ==
    \/ x.part_number[1] < y.part_number[1]
    \/ x.part_number = y.part_number /\ x.serial_number[1] < y.serial_number[1]
    \/ x.part_number = y.part_number /\ x.serial_number = y.serial_number /\ x.id < y.id

\* A set of rows as the sequence ORDER BY gives
RECURSIVE Ordered(_)
Ordered(set) ==
    IF set = {} THEN <<>>
    ELSE LET first == CHOOSE x \in set : \A y \in set \ {x} : RowBefore(x, y)
         IN  <<first>> \o Ordered(set \ {first})

\* storage.py lines 451-468: get_voters_by_ac
get_voters_by_ac(table, ac_number) ==
    Ordered({table[k] : k \in {n \in 1 .. Len(table) : table[n].ac_number = Some(ac_number)}})

\* verify_with_api.py lines 78-84: stats of a new APIVerifier
InitialStats == [total |-> 0, verified |-> 0, not_found |-> 0, mismatch |-> 0, errors |-> 0]

\* What the request of verify_voter meets (lines 116-174), by kind:
\*   "status"       a status code other than 200
\*   "not_success"  status 200 and data['status'] != 'Success'
\*   "timeout"      requests.exceptions.Timeout
\*   "exception"    another exception
\*   "success"      status 200 and 'Success', with the payload list
\* verify_voter as a function of the EPIC number of the row and of that
\* response: (verified, api_data)
verify_voter(epic_number, response) ==
    IF response.kind # "success"
    THEN [verified |-> FALSE, api_data |-> None]
    ELSE IF response.payload = <<>> THEN [verified |-> FALSE, api_data |-> None]
    ELSE IF /\ epic_number # None /\ epic_number[1] # <<>>
            /\ Strip(response.payload[1].epicNumber) # <<>>
            /\ Strip(response.payload[1].epicNumber) # epic_number[1]
    THEN [verified |-> FALSE, api_data |-> Some(response.payload[1])]
    ELSE [verified |-> TRUE, api_data |-> Some(response.payload[1])]

\* A loop that counts every result as verified
AlwaysVerified(res) == "verified"

\* Lines 227-235: the counter of stats the result of verify_voter adds to
CounterOf(res) ==
    IF res.verified THEN "verified"
    ELSE IF res.api_data = None THEN "not_found"
    ELSE "mismatch"

(***************************************************************************)
(* Each specification runs one part of the program; the variables of the   *)
(* other parts stay at their idle values.                                  *)
(***************************************************************************)
DefaultExtraction == [cid_mappings |-> EmptyMap, char_mappings |-> EmptyMap]

DecIdle ==
    /\ callee = "none" /\ text = <<>> /\ i = 0 /\ decoded = <<>> /\ result = <<>>
    /\ dpc = "idle" /\ prev_i = -1 /\ pass = 0 /\ first_in = <<>> /\ first_out = <<>>
    /\ ext_cfg = DefaultExtraction

EpicIdle == epic_fn = "none" /\ epic_in = <<>> /\ epic_out = <<>> /\ epc = "idle"

AgeIdle ==
    /\ age_parts = <<>> /\ age_start = 0 /\ age_i = 0 /\ age_out = <<>>
    /\ apc = "idle"

DocIdle ==
    /\ doc = <<>> /\ pg = 0 /\ ln = 0 /\ current_section = <<>> /\ voters = <<>>
    /\ xpc = "idle"

ValIdle ==
    /\ local_voter = EmptyPayload /\ fetch = "none" /\ api_data = EmptyPayload
    /\ val_result = InitialResult /\ threshold = match_threshold /\ vpc = "idle"

TableIdle == rows = <<>>

StoreIdle ==
    /\ lastrowid = None /\ roll = <<>> /\ roll_unique = FALSE
    /\ roll_raised = FALSE /\ calls = 0

VerifyIdle ==
    /\ batch_size = 0 /\ stats = InitialStats /\ ac_voters = <<>> /\ pos = 0
    /\ batch_count = 0 /\ now = 0 /\ attempted = None /\ trace = <<>> /\ committed = <<>>
    /\ cpc = "idle"

DupIdle ==
    /\ dup_rows = {} /\ dup_before = {} /\ duplicates = {} /\ removed = 0
    /\ exact_dupes = {} /\ qpc = "idle"


BatchIdle ==
    /\ batch = <<>> /\ sample_size = 0 /\ vidx = 0 /\ attempt = 0 /\ fetched = "pending"
    /\ report = InitialReport(0) /\ match_scores = <<>> /\ events = <<>> /\ bpc = "idle"

OtherThanDec ==
    <<epicVars, ageVars, docVars, valVars, batchVars, storeVars, verifyVars, dupVars, tableVars>>
OtherThanDecIdle ==
    /\ EpicIdle /\ AgeIdle /\ DocIdle /\ ValIdle /\ BatchIdle
    /\ StoreIdle /\ VerifyIdle /\ DupIdle /\ TableIdle

OtherThanEpic ==
    <<decVars, ageVars, docVars, valVars, batchVars, storeVars, verifyVars, dupVars, tableVars>>
OtherThanEpicIdle ==
    /\ DecIdle /\ AgeIdle /\ DocIdle /\ ValIdle /\ BatchIdle
    /\ StoreIdle /\ VerifyIdle /\ DupIdle /\ TableIdle

OtherThanAge ==
    <<decVars, epicVars, docVars, valVars, batchVars, storeVars, verifyVars, dupVars, tableVars>>
OtherThanAgeIdle ==
    /\ DecIdle /\ EpicIdle /\ DocIdle /\ ValIdle /\ BatchIdle
    /\ StoreIdle /\ VerifyIdle /\ DupIdle /\ TableIdle

OtherThanDoc ==
    <<decVars, epicVars, ageVars, valVars, batchVars, storeVars, verifyVars, dupVars, tableVars>>
OtherThanDocIdle ==
    /\ DecIdle /\ EpicIdle /\ AgeIdle /\ ValIdle /\ BatchIdle
    /\ StoreIdle /\ VerifyIdle /\ DupIdle /\ TableIdle

OtherThanVal ==
    <<decVars, epicVars, ageVars, docVars, batchVars, storeVars, verifyVars, dupVars, tableVars>>
OtherThanValIdle ==
    /\ DecIdle /\ EpicIdle /\ AgeIdle /\ DocIdle /\ BatchIdle
    /\ StoreIdle /\ VerifyIdle /\ DupIdle /\ TableIdle

OtherThanBatch ==
    <<decVars, epicVars, ageVars, docVars, valVars, storeVars, verifyVars, dupVars, tableVars>>
OtherThanBatchIdle ==
    /\ DecIdle /\ EpicIdle /\ AgeIdle /\ DocIdle /\ ValIdle
    /\ StoreIdle /\ VerifyIdle /\ DupIdle /\ TableIdle

OtherThanStore ==
    <<decVars, epicVars, ageVars, docVars, valVars, batchVars, verifyVars, dupVars>>
OtherThanStoreIdle ==
    /\ DecIdle /\ EpicIdle /\ AgeIdle /\ DocIdle
    /\ ValIdle /\ BatchIdle /\ VerifyIdle /\ DupIdle

OtherThanVerify ==
    <<decVars, epicVars, ageVars, docVars, valVars, batchVars, storeVars, dupVars>>
OtherThanVerifyIdle ==
    /\ DecIdle /\ EpicIdle /\ AgeIdle /\ DocIdle
    /\ ValIdle /\ BatchIdle /\ StoreIdle /\ DupIdle

OtherThanDup ==
    <<decVars, epicVars, ageVars, docVars, valVars, batchVars, storeVars, verifyVars, tableVars>>
OtherThanDupIdle ==
    /\ DecIdle /\ EpicIdle /\ AgeIdle /\ DocIdle /\ ValIdle
    /\ BatchIdle /\ StoreIdle /\ VerifyIdle /\ TableIdle

(***************************************************************************)
(* The decoders as a state machine: one behaviour is one call decode(x),   *)
(* of either decoder, optionally followed by decode(decode(x)).            *)
(***************************************************************************)
\* Characters the inputs are made of: every key of char_map and characters
\* outside it.
UnmappedChars == {"A", "B", "C", "a", "x", "<", "_", ";", " ", "SUP2"}

Alphabet == DOMAIN char_map \cup UnmappedChars

CidGroup(n) == CidPrefix \o PyStr(n) \o <<")">>
CidWGroup(n) == CidWPrefix \o <<":">> \o PyStr(n) \o <<")">>

\* Pieces free-form inputs are concatenated from: group prefixes with and
\* without a closing parenthesis, numeric and non-numeric contents.
Pieces == {CidPrefix, CidWPrefix, CidWPrefix \o <<":">>, <<")">>, <<"1", "9">>,
           <<"7">>, <<"SUP2">>, <<" ">>, <<"D">>, <<"x">>}

RECURSIVE PieceSeqs(_)
PieceSeqs(n) ==
    IF n = 0 THEN {<<>>}
    ELSE PieceSeqs(n - 1) \cup
         {p \o q : p \in Pieces, q \in PieceSeqs(n - 1)}

\* Texts without any mapped character, with whitespace to collapse.
UntouchedSamples == {<<"x", " ", " ", "A", " ">>, <<" ", "a", "_", " ", " ", "x">>}

DecodeInputs ==
    {<<c>> : c \in Alphabet}
    \cup UntouchedSamples
    \cup {CidGroup(n) : n \in 0..MaxCid}
    \cup {CidWGroup(n) : n \in 0..MaxCid}
    \cup {<<"a">> \o CidGroup(n) \o <<"Z">> : n \in 0..MaxCid}
    \cup PieceSeqs(MaxPieces)

\* config["extraction"]: nothing configured, or the substitution table
\* configured as char_mappings.
ExtractionConfigs ==
    {DefaultExtraction, [cid_mappings |-> EmptyMap, char_mappings |-> char_map]}

DecInit ==
    /\ OtherThanDecIdle
    /\ callee \in {"decode_text", "TextExtractor"}
    /\ text \in DecodeInputs
    /\ first_in = text
    /\ ext_cfg \in (IF callee = "TextExtractor" THEN ExtractionConfigs
                    ELSE {DefaultExtraction})
    /\ i = 0 /\ decoded = <<>> /\ result = <<>> /\ dpc = "call"
    /\ prev_i = -1 /\ pass = 1 /\ first_out = <<>>

\* decode_text line 35: if not text: return ""
DecodeEmpty ==
    /\ callee = "decode_text" /\ dpc = "call" /\ text = <<>>
    /\ result' = <<>> /\ dpc' = "done"
    /\ first_out' = IF pass = 1 THEN <<>> ELSE first_out
    /\ UNCHANGED <<callee, text, i, decoded, prev_i, pass, first_in, ext_cfg>>
    /\ UNCHANGED OtherThanDec

\* decode_text lines 54-55: decoded = [], i = 0
DecodeBegin ==
    /\ callee = "decode_text" /\ dpc = "call" /\ text # <<>>
    /\ decoded' = <<>> /\ i' = 0 /\ prev_i' = -1 /\ dpc' = "scan"
    /\ UNCHANGED <<callee, text, result, pass, first_in, first_out, ext_cfg>>
    /\ UNCHANGED OtherThanDec

\* decode_text lines 58-82: one iteration that consumes a group
DecodeGroup ==
    /\ dpc = "scan" /\ i < Len(text)
    /\ IsGroupAt(text, i) /\ ~GroupRaises(text, i)
    /\ i' = LoopBody(text, i, decoded)[1]
    /\ decoded' = LoopBody(text, i, decoded)[2]
    /\ prev_i' = i
    /\ UNCHANGED <<callee, text, result, dpc, pass, first_in, first_out, ext_cfg>>
    /\ UNCHANGED OtherThanDec

\* decode_text line 65: int(cid_content) raises ValueError, nothing catches it
DecodeRaise ==
    /\ dpc = "scan" /\ i < Len(text)
    /\ GroupRaises(text, i)
    /\ dpc' = "raised"
    /\ UNCHANGED <<callee, text, i, decoded, result, prev_i, pass, first_in,
                   first_out, ext_cfg>>
    /\ UNCHANGED OtherThanDec

\* decode_text lines 84-93: one iteration that maps a single character
DecodeChar ==
    /\ dpc = "scan" /\ i < Len(text)
    /\ ~IsGroupAt(text, i)
    /\ i' = LoopBody(text, i, decoded)[1]
    /\ decoded' = LoopBody(text, i, decoded)[2]
    /\ prev_i' = i
    /\ UNCHANGED <<callee, text, result, dpc, pass, first_in, first_out, ext_cfg>>
    /\ UNCHANGED OtherThanDec

\* decode_text lines 95-98: the loop has ended
DecodeReturn ==
    /\ dpc = "scan" /\ i >= Len(text)
    /\ result' = Finish(decoded) /\ dpc' = "done"
    /\ first_out' = IF pass = 1 THEN Finish(decoded) ELSE first_out
    /\ UNCHANGED <<callee, text, i, decoded, prev_i, pass, first_in, ext_cfg>>
    /\ UNCHANGED OtherThanDec

\* TextExtractor.decode_text, lines 60-78
TextExtractorDecode ==
    /\ callee = "TextExtractor" /\ dpc = "call"
    /\ result' = TextExtractor_decode_text(text, ext_cfg) /\ dpc' = "done"
    /\ first_out' = IF pass = 1 THEN TextExtractor_decode_text(text, ext_cfg)
                    ELSE first_out
    /\ UNCHANGED <<callee, text, i, decoded, prev_i, pass, first_in, ext_cfg>>
    /\ UNCHANGED OtherThanDec

\* The caller decodes the result once more: decode(decode(x)).
DecodeAgain ==
    /\ dpc = "done" /\ pass = 1
    /\ text' = result /\ pass' = 2 /\ dpc' = "call"
    /\ i' = 0 /\ decoded' = <<>> /\ prev_i' = -1
    /\ UNCHANGED <<callee, result, first_in, first_out, ext_cfg>>
    /\ UNCHANGED OtherThanDec

DecNext ==
    \/ DecodeEmpty \/ DecodeBegin \/ DecodeGroup \/ DecodeRaise \/ DecodeChar
    \/ DecodeReturn \/ TextExtractorDecode \/ DecodeAgain

SpecDecode == DecInit /\ [][DecNext]_vars

\* decode_text is a sequential loop: a call that can take a step takes it.
FairSpecDecode == SpecDecode /\ WF_vars(DecNext)

(***************************************************************************)
(* The EPIC formatters: one behaviour is one call of one formatter.        *)
(***************************************************************************)
\* The EPIC number of the end-to-end example.
ExampleEpic == <<"W", "B", "1", "2", "3", "4", "5", "6", "7", "8", "9", "0", "1", "2", "3">>

EpicPieces == {WB, <<"w", "b">>, <<"/">>, <<" ">>, <<"1", "2">>, <<"3", "4", "5">>,
               <<"6", "7", "8", "9", "0", "1", "2", "3">>}

RECURSIVE EpicInputs(_)
EpicInputs(n) ==
    IF n = 0 THEN {<<>>}
    ELSE EpicInputs(n - 1) \cup {p \o q : p \in EpicPieces, q \in EpicInputs(n - 1)}

EpicInit ==
    /\ OtherThanEpicIdle
    /\ epic_fn \in {"utils", "parser"}
    /\ epic_in \in EpicInputs(MaxEpicPieces)
    /\ epic_out = <<>> /\ epc = "call"

\* utils.format_epic_number
FormatEpicUtils ==
    /\ epc = "call" /\ epic_fn = "utils"
    /\ epic_out' = utils_format_epic_number(epic_in) /\ epc' = "done"
    /\ UNCHANGED <<epic_fn, epic_in>>
    /\ UNCHANGED OtherThanEpic

\* VoterParser.format_epic_number
FormatEpicParser ==
    /\ epc = "call" /\ epic_fn = "parser"
    /\ epic_out' = VoterParser_format_epic_number(epic_in) /\ epc' = "done"
    /\ UNCHANGED <<epic_fn, epic_in>>
    /\ UNCHANGED OtherThanEpic

EpicNext == FormatEpicUtils \/ FormatEpicParser

SpecEpic == EpicInit /\ [][EpicNext]_vars

(***************************************************************************)
(* parse_age_from_parts: one behaviour is one call, one action per         *)
(* iteration of its loop.                                                  *)
(***************************************************************************)
AgeTokens ==
    {CidGroup(24) \o CidGroup(21),            \* 5, 2: 52
     CidGroup(19) \o CidGroup(20),            \* 0, 1: 1
     CidGroup(1) \o CidGroup(27),             \* 1 and 8: 18
     CidWGroup(20) \o CidGroup(21) \o <<"4", "5">>,  \* 12, then 45
     CidGroup(5) \o <<"9">>,
     <<"1", "7">>, <<"1", "8">>, <<"1", "2", "0">>, <<"1", "2", "1">>,
     <<"M">>, <<"SUP2">>}

RECURSIVE AgePartLists(_)
AgePartLists(n) ==
    IF n = 0 THEN {<<>>}
    ELSE AgePartLists(n - 1) \cup
         {<<p>> \o q : p \in AgeTokens, q \in AgePartLists(n - 1)}

AgeInit ==
    /\ OtherThanAgeIdle
    /\ age_parts \in AgePartLists(MaxAgeParts)
    /\ age_start \in 0..1
    /\ age_i = age_start /\ age_out = <<>> /\ apc = "loop"

\* Lines 116-117 and 123-124: a candidate of the part is in range
AgeReturn ==
    /\ apc = "loop" /\ age_i < Len(age_parts)
    /\ AgeStep(age_parts[age_i + 1]).what = "return"
    /\ age_out' = AgeStep(age_parts[age_i + 1]).val /\ apc' = "done"
    /\ UNCHANGED <<age_parts, age_start, age_i>>
    /\ UNCHANGED OtherThanAge

\* Line 122: int(cleaned) raises ValueError
AgeRaise ==
    /\ apc = "loop" /\ age_i < Len(age_parts)
    /\ AgeStep(age_parts[age_i + 1]).what = "raise"
    /\ apc' = "raised"
    /\ UNCHANGED <<age_parts, age_start, age_i, age_out>>
    /\ UNCHANGED OtherThanAge

\* No candidate of the part is in range: the next part
AgeSkip ==
    /\ apc = "loop" /\ age_i < Len(age_parts)
    /\ AgeStep(age_parts[age_i + 1]).what = "next"
    /\ age_i' = age_i + 1
    /\ UNCHANGED <<age_parts, age_start, age_out, apc>>
    /\ UNCHANGED OtherThanAge

\* Line 126: return ""
AgeNone ==
    /\ apc = "loop" /\ age_i >= Len(age_parts)
    /\ age_out' = <<>> /\ apc' = "done"
    /\ UNCHANGED <<age_parts, age_start, age_i>>
    /\ UNCHANGED OtherThanAge

AgeNext == AgeReturn \/ AgeRaise \/ AgeSkip \/ AgeNone

SpecAge == AgeInit /\ [][AgeNext]_vars

(***************************************************************************)
(* extract_voter_data_from_pdf: one behaviour is the extraction of one     *)
(* document, one action per page and per line.                             *)
(***************************************************************************)
\* The line of the end-to-end example, in plain text and as the documents
\* obfuscate it.
ExampleLine ==
    JoinSpace(<< <<"1", "2">>, <<"5", "/", "1">>, <<"R", "A", "M">>, <<"K", "U", "M", "A", "R">>, <<"D", "A", "S">>, <<"F", "a", "t", "h", "e", "r">>, <<"S", "H", "Y", "A", "M">>, <<"D", "A", "S">>, <<"M">>,
                 CidGroup(24) \o CidGroup(21), ExampleEpic >>)

ObfuscatedExampleLine ==
    JoinSpace(<< <<"1", "2">>, <<"5", "/", "1">>, <<"5", "$", "0">>, <<".", "8", "0", "$", "5">>, <<"'", "$", "6">>, <<")", "D", "W", "K", "H", "U">>, <<"6", "+", "<", "$", "0">>, <<"'", "$", "6">>, <<"0">>,
                 CidGroup(24) \o CidGroup(21),
                 <<":", "%">> \o CidGroup(18) \o CidGroup(20) \o CidGroup(21) >>)

\* A line whose only marker is Wife, obfuscated
WifeLine ==
    JoinSpace(<< <<"1", "2">>, <<"5", "/", "1">>, <<"5", "$", "0">>, e_Wife, <<"5", "$", "0">>,
                 <<")">>, CidGroup(24) \o CidGroup(21) >>)

\* A line with the Wife marker before the Father marker
WifeBeforeFatherLine ==
    JoinSpace(<< <<"1", "2">>, <<"5", "/", "1">>, <<"5", "$", "0">>, e_Wife, <<"5", "$", "0">>,
                 e_Father, <<"6", "+", "<", "$", "0">>, <<"0">>, CidGroup(24) \o CidGroup(21) >>)

\* A line whose house number is the letter M and whose sex marker is )
HouseNoMLine ==
    JoinSpace(<< <<"1", "2">>, <<"M">>, <<"5", "$", "0">>, e_Father, <<"6", "+", "<", "$", "0">>,
                 <<")">>, CidGroup(24) \o CidGroup(21) >>)

\* A line whose relation name ends with the token 50, which decodes to RM
RelationName50Line ==
    JoinSpace(<< <<"1", "2">>, <<"5", "/", "1">>, <<"5", "$", "0">>, e_Father,
                 <<"6", "+", "<", "$", "0">>, <<"5", "0">>, <<"0">>, CidGroup(24) \o CidGroup(21) >>)

SectionLine == <<"6", "H", "F", "W", "L", "R", "Q", " ", "$">>
HeaderLine == <<"(", "O", "H", "F", "W", "R", "U", "D", "O", " ", "5", "R", "O", "O">>

\* The tokens free-form lines start with: an obfuscated name, a code that
\* decodes to nothing, and the Father marker obfuscated.
LineTokens == {<<"5", "$", "0">>, CidGroup(3), e_Father}

RECURSIVE TokenLists(_)
TokenLists(n) ==
    IF n = 0 THEN {<<>>}
    ELSE TokenLists(n - 1) \cup {<<p>> \o q : p \in LineTokens, q \in TokenLists(n - 1)}

\* The tokens free-form lines end with: nothing, or a marker (obfuscated or
\* plain) or a name, followed by a name or by a token on which int() raises:
\* a code whose content is U+00B2, and U+00B2 alone where an age is looked
\* for.
LineTails ==
    {<<>>}
    \cup {<<a, b>> : a \in {e_Father, s_Father, <<"5", "$", "0">>},
                     b \in {<<"5", "$", "0">>, CidPrefix \o <<"SUP2", ")">>, <<"SUP2">>}}

Lines ==
    {ExampleLine, ObfuscatedExampleLine, SectionLine, HeaderLine,
     WifeLine, WifeBeforeFatherLine, HouseNoMLine, RelationName50Line}
    \cup {JoinSpace(ts \o tail) : ts \in TokenLists(MaxLineTokens - 2), tail \in LineTails}

Documents ==
    {<< <<l>> >> : l \in Lines}
    \cup {<< <<>>, <<SectionLine, ObfuscatedExampleLine>>, <<ObfuscatedExampleLine>> >>,
          << <<HeaderLine, ExampleLine, ObfuscatedExampleLine>> >>}

DocInit ==
    /\ OtherThanDocIdle
    /\ doc \in Documents
    /\ pg = 1 /\ ln = 0 /\ current_section = <<>> /\ voters = <<>> /\ xpc = "page"

CurLine == doc[pg][ln]

\* Line 191: the line is a section header (the decoded test is reached only
\* when the raw tests fail)
IsSectionLine(line) ==
    IsRawSectionLine(line) \/ Contains(Lower(decode_text(line).val), s_section)

\* Lines 191-192 decode the whole line, of a section header or not
LineDecodeRaises(line) == ~IsHeaderLine(line) /\ decode_text(line).raised

\* The line reaches the field extraction of lines 205-309
IsVoterLine(line) ==
    /\ ~IsHeaderLine(line) /\ ~decode_text(line).raised /\ ~IsSectionLine(line)
    /\ HasMarker(line) /\ EnoughParts(Split(line))

\* Lines 178-180: a page without text
PageSkip ==
    /\ xpc = "page" /\ pg <= Len(doc) /\ doc[pg] = <<>>
    /\ pg' = pg + 1
    /\ UNCHANGED <<doc, ln, current_section, voters, xpc>>
    /\ UNCHANGED OtherThanDoc

\* Lines 182-183: the lines of the page, current_section = ""
PageStart ==
    /\ xpc = "page" /\ pg <= Len(doc) /\ doc[pg] # <<>>
    /\ current_section' = <<>> /\ ln' = 1 /\ xpc' = "line"
    /\ UNCHANGED <<doc, pg, voters>>
    /\ UNCHANGED OtherThanDoc

\* Lines 187-188
LineHeader ==
    /\ xpc = "line" /\ ln <= Len(doc[pg]) /\ IsHeaderLine(CurLine)
    /\ ln' = ln + 1
    /\ UNCHANGED <<doc, pg, current_section, voters, xpc>>
    /\ UNCHANGED OtherThanDoc

\* Lines 191-193
LineSection ==
    /\ xpc = "line" /\ ln <= Len(doc[pg]) /\ ~IsHeaderLine(CurLine)
    /\ ~decode_text(CurLine).raised /\ IsSectionLine(CurLine)
    /\ current_section' = decode_text(CurLine).val
    /\ ln' = ln + 1
    /\ UNCHANGED <<doc, pg, voters, xpc>>
    /\ UNCHANGED OtherThanDoc

\* Lines 196-203: no marker, or fewer than 5 parts
LineOther ==
    /\ xpc = "line" /\ ln <= Len(doc[pg]) /\ ~IsHeaderLine(CurLine)
    /\ ~decode_text(CurLine).raised /\ ~IsSectionLine(CurLine)
    /\ ~(HasMarker(CurLine) /\ EnoughParts(Split(CurLine)))
    /\ ln' = ln + 1
    /\ UNCHANGED <<doc, pg, current_section, voters, xpc>>
    /\ UNCHANGED OtherThanDoc

\* Lines 205-309: the fields of a voter line; the record is appended when
\* the name and the relationship are there
LineVoter ==
    /\ xpc = "line" /\ ln <= Len(doc[pg]) /\ IsVoterLine(CurLine)
    /\ LET v == VoterOfParts(Split(CurLine), current_section, pg)
       IN  /\ ~v.raised
           /\ voters' = IF v.emit THEN Append(voters, v.voter) ELSE voters
    /\ ln' = ln + 1
    /\ UNCHANGED <<doc, pg, current_section, xpc>>
    /\ UNCHANGED OtherThanDoc

\* A decode_text or int() call of the line raises ValueError: nothing in
\* extract_voter_data_from_pdf catches it
LineRaise ==
    /\ xpc = "line" /\ ln <= Len(doc[pg])
    /\ \/ LineDecodeRaises(CurLine)
       \/ /\ IsVoterLine(CurLine)
          /\ VoterOfParts(Split(CurLine), current_section, pg).raised
    /\ xpc' = "raised"
    /\ UNCHANGED <<doc, pg, ln, current_section, voters>>
    /\ UNCHANGED OtherThanDoc

\* Line 185: the lines of the page are exhausted
PageEnd ==
    /\ xpc = "line" /\ ln > Len(doc[pg])
    /\ pg' = pg + 1 /\ xpc' = "page"
    /\ UNCHANGED <<doc, ln, current_section, voters>>
    /\ UNCHANGED OtherThanDoc

\* Line 311: return voters
ExtractReturn ==
    /\ xpc = "page" /\ pg > Len(doc)
    /\ xpc' = "done"
    /\ UNCHANGED <<doc, pg, ln, current_section, voters>>
    /\ UNCHANGED OtherThanDoc

DocNext ==
    \/ PageSkip \/ PageStart \/ LineHeader \/ LineSection \/ LineOther
    \/ LineVoter \/ LineRaise \/ PageEnd \/ ExtractReturn

SpecExtract == DocInit /\ [][DocNext]_vars

(***************************************************************************)
(* DataValidator.validate_voter: one behaviour is one call.                *)
(***************************************************************************)
\* The names of the voters: the strings of at most MaxNameLen characters over
\* two letters, and a blank string.
RECURSIVE Names(_)
Names(n) ==
    IF n = 0 THEN {<<>>}
    ELSE Names(n - 1) \cup {<<c>> \o x : c \in {"A", "b"}, x \in Names(n - 1)}

NameValues == {Missing, Null, Str(<<" ">>)} \cup {Str(x) : x \in Names(MaxNameLen)}

EpicValues == {Missing, Null, Str(<<"W", "B", "/", "1">>), Str(<<"w", "b", "/", "1", " ">>)}

AgeValues == {Missing, Null, Str(<<"5", "2">>), Str(<<"2", "5">>)}

LocalVoters ==
    {[epic_no |-> e, name |-> nm, age |-> a, other |-> FALSE] :
        e \in EpicValues \ {Str(<<"w", "b", "/", "1", " ">>)}, nm \in NameValues, a \in AgeValues}

Payloads ==
    {[epic_no |-> e, name |-> nm, age |-> a, other |-> o] :
        e \in EpicValues \ {Null}, nm \in NameValues, a \in AgeValues \ {Str(<<"2", "5">>)},
        o \in BOOLEAN}

\* Line 45: the threshold of the configuration, 0.95 when it names none
Thresholds == {match_threshold, Frac(1, 2)}

ValInit ==
    /\ OtherThanValIdle
    /\ threshold \in Thresholds
    /\ local_voter \in LocalVoters
    /\ fetch \in {"payload", "none", "raised"}
    /\ api_data \in IF fetch = "payload" THEN Payloads ELSE {EmptyPayload}
    /\ val_result = InitialResult /\ vpc = "call"

\* Lines 70-73: no EPIC number
ValidateNoEpic ==
    /\ vpc = "call" /\ ~Truthy(local_voter.epic_no)
    /\ val_result' = [InitialResult EXCEPT !.error = "No EPIC number to validate"]
    /\ vpc' = "done"
    /\ UNCHANGED <<local_voter, fetch, api_data, threshold>>
    /\ UNCHANGED OtherThanVal

\* Lines 79-81: the fetch returned None or an empty payload
ValidateNotFound ==
    /\ vpc = "call" /\ Truthy(local_voter.epic_no)
    /\ fetch = "none" \/ (fetch = "payload" /\ ~PayloadTruthy(api_data))
    /\ val_result' = [InitialResult EXCEPT !.error = "Voter not found in API"]
    /\ vpc' = "done"
    /\ UNCHANGED <<local_voter, fetch, api_data, threshold>>
    /\ UNCHANGED OtherThanVal

\* Lines 96-98: the fetch raised an exception that it does not catch itself
ValidateError ==
    /\ vpc = "call" /\ Truthy(local_voter.epic_no) /\ fetch = "raised"
    /\ val_result' = [InitialResult EXCEPT !.error = "str(e)"]
    /\ vpc' = "done"
    /\ UNCHANGED <<local_voter, fetch, api_data, threshold>>
    /\ UNCHANGED OtherThanVal

\* Lines 83-94: the payload is compared with the voter
ValidateScored ==
    /\ vpc = "call" /\ Truthy(local_voter.epic_no)
    /\ fetch = "payload" /\ PayloadTruthy(api_data)
    /\ val_result' =
          [valid |-> FracGe(calculate_match_score(local_voter, api_data), threshold),
           match_score |-> calculate_match_score(local_voter, api_data),
           api_data |-> "payload",
           differences |-> find_differences(local_voter, api_data),
           error |-> "None"]
    /\ vpc' = "done"
    /\ UNCHANGED <<local_voter, fetch, api_data, threshold>>
    /\ UNCHANGED OtherThanVal

ValNext == ValidateNoEpic \/ ValidateNotFound \/ ValidateError \/ ValidateScored

SpecValidate == ValInit /\ [][ValNext]_vars

(***************************************************************************)
(* DataValidator.validate_batch: one behaviour is one call, one action per *)
(* request of a lookup and per voter.                                      *)
(***************************************************************************)
VoterA == [epic_no |-> Str(<<"W", "B", "/", "1">>), name |-> Str(<<"A">>), age |-> Missing, other |-> FALSE]
VoterNoEpic == [VoterA EXCEPT !.epic_no = Missing]
PayloadA == VoterA
PayloadB == [VoterA EXCEPT !.name = Str(<<"b">>)]

\* The responses a lookup gets, attempt by attempt; the lookup ends at the
\* first response that is not retried.
Scripts ==
    {<<"success">>, <<"failure">>, <<"not_found">>, <<"other_exception">>,
     <<"blank_exception">>,
     <<"server_error", "success">>,
     <<"request_exception", "request_exception", "request_exception">>,
     <<"server_error", "request_exception", "not_found">>,
     <<"request_exception", "server_error", "server_error">>}

BatchVoters ==
    {[voter |-> VoterNoEpic, api |-> EmptyPayload, script |-> <<>>]}
    \cup {[voter |-> VoterA, api |-> p, script |-> sc] :
            p \in {PayloadA, PayloadB}, sc \in {x \in Scripts : x[Len(x)] = "success"}}
    \cup {[voter |-> VoterA, api |-> EmptyPayload, script |-> sc] :
            sc \in {x \in Scripts : x[Len(x)] # "success"}}

RECURSIVE Batches(_)
Batches(n) ==
    IF n = 0 THEN {<<>>}
    ELSE Batches(n - 1) \cup {Append(b, v) : b \in {x \in Batches(n - 1) : Len(x) = n - 1}, v \in BatchVoters}

BatchInit ==
    /\ OtherThanBatchIdle
    /\ batch \in Batches(MaxBatch)
    /\ sample_size \in -1 .. MaxBatch
    /\ vidx = 1 /\ attempt = 0 /\ fetched = "pending"
    /\ report = InitialReport(Len(batch)) /\ match_scores = <<>> /\ events = <<>>
    /\ bpc = "loop"

ToValidate == voters_to_validate(batch, sample_size)

\* Lines 259-278 for a voter without EPIC number: validate_voter returns at
\* line 73 without a lookup
BatchNoEpic ==
    /\ bpc = "loop" /\ vidx <= Len(ToValidate)
    /\ ~Truthy(ToValidate[vidx].voter.epic_no)
    /\ report' = Tally(report, ToValidate[vidx].voter,
                       validate_voter(ToValidate[vidx].voter, "none", EmptyPayload, match_threshold))
    /\ events' = Append(events, "sleep")
    /\ vidx' = vidx + 1
    /\ UNCHANGED <<batch, sample_size, attempt, fetched, match_scores, bpc>>
    /\ UNCHANGED OtherThanBatch

\* Lines 77 and 126: validate_voter calls the lookup
LookupBegin ==
    /\ bpc = "loop" /\ vidx <= Len(ToValidate)
    /\ Truthy(ToValidate[vidx].voter.epic_no)
    /\ attempt' = 0 /\ fetched' = "pending" /\ bpc' = "fetch"
    /\ UNCHANGED <<batch, sample_size, vidx, report, match_scores, events>>
    /\ UNCHANGED OtherThanBatch

\* Lines 128-145 and 152-153: a request whose response ends the lookup
LookupReturn ==
    /\ bpc = "fetch" /\ attempt < retry_attempts
    /\ ~IsRetried(ToValidate[vidx].script[attempt + 1])
    /\ fetched' = LookupEnd(ToValidate[vidx].script[attempt + 1])
    /\ events' = Append(events, "request")
    /\ bpc' = "tally"
    /\ UNCHANGED <<batch, sample_size, vidx, attempt, report, match_scores>>
    /\ UNCHANGED OtherThanBatch

\* Lines 147-155: a request whose response is retried, with the sleep before
\* the next attempt when there is one
LookupRetry ==
    /\ bpc = "fetch" /\ attempt < retry_attempts
    /\ IsRetried(ToValidate[vidx].script[attempt + 1])
    /\ events' = IF attempt < retry_attempts - 1
                 THEN events \o <<"request", "retry_sleep">>
                 ELSE Append(events, "request")
    /\ attempt' = attempt + 1
    /\ UNCHANGED <<batch, sample_size, vidx, fetched, report, match_scores, bpc>>
    /\ UNCHANGED OtherThanBatch

\* Line 157: the attempts are used up
LookupExhausted ==
    /\ bpc = "fetch" /\ attempt >= retry_attempts
    /\ fetched' = "none" /\ bpc' = "tally"
    /\ UNCHANGED <<batch, sample_size, vidx, attempt, report, match_scores, events>>
    /\ UNCHANGED OtherThanBatch

\* Lines 79-98 and 262-278: the result of the voter, the counters, the sleep
BatchTally ==
    /\ bpc = "tally"
    /\ LET res == validate_voter(ToValidate[vidx].voter, fetched, ToValidate[vidx].api,
                                 match_threshold)
       IN  /\ report' = Tally(report, ToValidate[vidx].voter, res)
           /\ match_scores' = IF ~HasError(res) /\ res.valid
                              THEN Append(match_scores, res.match_score)
                              ELSE match_scores
    /\ events' = Append(events, "sleep")
    /\ vidx' = vidx + 1 /\ bpc' = "loop"
    /\ UNCHANGED <<batch, sample_size, attempt, fetched>>
    /\ UNCHANGED OtherThanBatch

\* Lines 280-292: the averages, return report
BatchReturn ==
    /\ bpc = "loop" /\ vidx > Len(ToValidate)
    /\ report' = [report EXCEPT
                    !.avg_match_score = Mean(match_scores),
                    !.validation_rate = IF report.validated > 0
                                        THEN Frac(report.valid, report.validated) ELSE Zero]
    /\ bpc' = "done"
    /\ UNCHANGED <<batch, sample_size, vidx, attempt, fetched, match_scores, events>>
    /\ UNCHANGED OtherThanBatch

BatchNext ==
    \/ BatchNoEpic \/ LookupBegin \/ LookupReturn \/ LookupRetry \/ LookupExhausted
    \/ BatchTally \/ BatchReturn

SpecBatch == BatchInit /\ [][BatchNext]_vars

(***************************************************************************)
(* The store: calls of Database.insert_voter and of save_voters_to_db, one *)
(* action per call.                                                        *)
(***************************************************************************)
EpicE1 == <<"E", "1">>
EpicE2 == <<"E", "2">>

\* voter_data as insert_voter reads it with .get(): every column is None or
\* a value
VoterData ==
    [epic_number : {None, Some(EpicE1), Some(EpicE2)}, ac_number : {Some(1), Some(2)},
     part_number : {Some(1)}, serial_number : {Some(1), Some(2)}, name : {Some(<<"A">>)}]

KeyedVoter == [epic_number |-> Some(EpicE1), ac_number |-> Some(1), part_number |-> Some(1),
               serial_number |-> Some(1), name |-> Some(<<"A">>)]
UnkeyedVoter == [KeyedVoter EXCEPT !.epic_number = None]

\* The lists of voters extracted from a document
VoterLists == {<<KeyedVoter>>, <<UnkeyedVoter>>, <<UnkeyedVoter, KeyedVoter>>}

StoreInit ==
    /\ OtherThanStoreIdle
    /\ rows = <<>> /\ lastrowid = None /\ roll = <<>>
    /\ roll_unique \in BOOLEAN
    /\ roll_raised = FALSE /\ calls = 0

\* storage.py lines 418-449
InsertVoter ==
    /\ calls < MaxCalls
    /\ \E voter_data \in VoterData :
          /\ rows' = insert_voter(rows, voter_data).rows
          /\ lastrowid' = insert_voter(rows, voter_data).returned
    /\ calls' = calls + 1
    /\ UNCHANGED <<roll, roll_unique, roll_raised>>
    /\ UNCHANGED OtherThanStore

\* extract_voters_universal.py lines 313-335
SaveVoters ==
    /\ calls < MaxCalls
    /\ \E vs \in VoterLists :
          /\ roll' = save_voters_to_db(roll, vs, roll_unique).rows
          /\ roll_raised' = save_voters_to_db(roll, vs, roll_unique).raised
    /\ calls' = calls + 1
    /\ UNCHANGED <<rows, lastrowid, roll_unique>>
    /\ UNCHANGED OtherThanStore

StoreNext == InsertVoter \/ SaveVoters

SpecStore == StoreInit /\ [][StoreNext]_vars

(***************************************************************************)
(* APIVerifier.verify_assembly_constituency on a new APIVerifier: one      *)
(* behaviour is one call, one action per voter of the loop.                *)
(***************************************************************************)
\* The dictionaries a payload list holds: has_keys is FALSE for {}
ApiVoters ==
    {[has_keys |-> FALSE, epicNumber |-> <<>>],
     [has_keys |-> TRUE, epicNumber |-> <<>>],
     [has_keys |-> TRUE, epicNumber |-> <<" ">> \o EpicE1],
     [has_keys |-> TRUE, epicNumber |-> EpicE2]}

VerifyResponses ==
    {[kind |-> k, payload |-> <<>>] : k \in {"status", "not_success", "timeout", "exception"}}
    \cup {[kind |-> "success", payload |-> <<>>]}
    \cup {[kind |-> "success", payload |-> <<d>>] : d \in ApiVoters}

\* The voters inserted before the call: of constituency 1 with and without
\* EPIC number, and of constituency 2
StoredVoters ==
    {KeyedVoter, UnkeyedVoter, [KeyedVoter EXCEPT !.ac_number = Some(2)]}

\* The tables after at most n inserts, each new row left unverified or marked
\* by an earlier call
RECURSIVE Tables(_)
Tables(n) ==
    IF n = 0 THEN {<<>>}
    ELSE Tables(n - 1)
         \cup {insert_voter(t, v).rows : t \in Tables(n - 1), v \in StoredVoters}
         \cup {mark_voter_verified(insert_voter(t, v).rows, Len(t) + 1, TRUE,
                                   Some([has_keys |-> TRUE, epicNumber |-> EpicE1]), 0) :
                 t \in Tables(n - 1), v \in StoredVoters}

VerifyInit ==
    /\ OtherThanVerifyIdle
    /\ rows \in Tables(MaxRows)
    /\ batch_size \in {1, MaxRows}
    /\ stats = InitialStats /\ ac_voters = <<>> /\ pos = 1 /\ batch_count = 0
    /\ now = 1 /\ attempted = None /\ trace = <<>> /\ committed = rows
    /\ cpc = "start"

\* Lines 193-205: the voters of the constituency; return at once when there
\* are none
VerifyBegin ==
    /\ cpc = "start"
    /\ ac_voters' = get_voters_by_ac(rows, 1)
    /\ IF get_voters_by_ac(rows, 1) = <<>>
       THEN cpc' = "done" /\ stats' = stats
       ELSE cpc' = "loop" /\ stats' = [stats EXCEPT !.total = Len(get_voters_by_ac(rows, 1))]
    /\ UNCHANGED <<rows, batch_size, pos, batch_count, now, attempted, trace, committed>>
    /\ UNCHANGED OtherThanVerify

\* Lines 207-252, the path on which nothing raises outside verify_voter: the
\* row is marked, one counter is raised, the batch is committed when it is
\* full, the delay is slept
VerifyVoter ==
    /\ cpc = "loop" /\ pos <= Len(ac_voters)
    /\ \E response \in VerifyResponses :
         LET res == verify_voter(ac_voters[pos].epic_number, response)
         IN  /\ rows' = mark_voter_verified(rows, ac_voters[pos].id, res.verified, res.api_data, now)
             /\ stats' = [stats EXCEPT ![CounterOf(res)] = @ + 1]
             /\ attempted' = Some([id |-> ac_voters[pos].id, response |-> response,
                                   result |-> res, raised |-> "no"])
    /\ IF batch_count + 1 >= batch_size
       THEN /\ committed' = rows' /\ batch_count' = 0
            /\ trace' = trace \o <<"call", "commit", "sleep">>
       ELSE /\ committed' = committed /\ batch_count' = batch_count + 1
            /\ trace' = trace \o <<"call", "sleep">>
    /\ now' = now + 1
    /\ pos' = pos + 1
    /\ UNCHANGED <<batch_size, ac_voters, cpc>>
    /\ UNCHANGED OtherThanVerify

\* Lines 228-234 and 254-256: mark_voter_verified raises; the handler adds
\* to errors and the loop goes on, without the delay of line 252
VerifyMarkRaises ==
    /\ cpc = "loop" /\ pos <= Len(ac_voters)
    /\ \E response \in VerifyResponses :
         attempted' = Some([id |-> ac_voters[pos].id, response |-> response,
                            result |-> verify_voter(ac_voters[pos].epic_number, response),
                            raised |-> "mark"])
    /\ stats' = [stats EXCEPT !.errors = @ + 1]
    /\ trace' = Append(trace, "call")
    /\ pos' = pos + 1
    /\ UNCHANGED <<rows, batch_size, ac_voters, batch_count, now, committed, cpc>>
    /\ UNCHANGED OtherThanVerify

\* Lines 237-241 and 254-256: the commit of a full batch raises, after the
\* row was marked and its counter raised; the handler adds to errors,
\* batch_count stays as it is, the delay of line 252 is not slept
VerifyCommitRaises ==
    /\ cpc = "loop" /\ pos <= Len(ac_voters)
    /\ batch_count + 1 >= batch_size
    /\ \E response \in VerifyResponses :
         LET res == verify_voter(ac_voters[pos].epic_number, response)
         IN  /\ rows' = mark_voter_verified(rows, ac_voters[pos].id, res.verified, res.api_data, now)
             /\ stats' = [stats EXCEPT ![CounterOf(res)] = @ + 1, !.errors = @ + 1]
             /\ attempted' = Some([id |-> ac_voters[pos].id, response |-> response,
                                   result |-> res, raised |-> "commit"])
    /\ batch_count' = batch_count + 1
    /\ trace' = Append(trace, "call")
    /\ now' = now + 1
    /\ pos' = pos + 1
    /\ UNCHANGED <<batch_size, ac_voters, committed, cpc>>
    /\ UNCHANGED OtherThanVerify

\* Lines 258-273: the final commit, return self.stats
VerifyReturn ==
    /\ cpc = "loop" /\ pos > Len(ac_voters)
    /\ committed' = rows
    /\ trace' = Append(trace, "commit")
    /\ cpc' = "done"
    /\ UNCHANGED <<rows, batch_size, stats, ac_voters, pos, batch_count, now, attempted>>
    /\ UNCHANGED OtherThanVerify

VerifyNext ==
    \/ VerifyBegin \/ VerifyVoter \/ VerifyMarkRaises \/ VerifyCommitRaises \/ VerifyReturn

SpecVerify == VerifyInit /\ [][VerifyNext]_vars

(***************************************************************************)
(* scripts/validate_database.py: remove_exact_duplicates, then the         *)
(* detect_duplicates that main calls after it.  The table is a set of rows *)
(* [rowid, ac_number, part_number, sl_no, voter_name], a column being None *)
(* for NULL.                                                               *)
(***************************************************************************)
\* GROUP BY ac_number, part_number, sl_no, voter_name: the rows of a group
\* have the same key, NULL being grouped with NULL
GroupKey(r) == <<r.ac_number, r.part_number, r.sl_no, r.voter_name>>

GroupOf(t, key) == {r \in t : GroupKey(r) = key}

\* MIN(rowid) of a group
MinRowid(set) == CHOOSE n \in {r.rowid : r \in set} : \A o \in set : n <= o.rowid

\* Lines 180-187: the groups HAVING COUNT(*) > 1, each with MIN(rowid)
FindDuplicates(t) ==
    {[keep_id |-> MinRowid(GroupOf(t, key)), key |-> key,
      dup_count |-> Cardinality(GroupOf(t, key))] :
        key \in {k \in {GroupKey(r) : r \in t} : Cardinality(GroupOf(t, k)) > 1}}

\* Lines 198-202: the rows the DELETE of one group removes; column = ? is
\* not true of a NULL column nor of a NULL parameter
DeletedBy(t, g) ==
    {r \in t : /\ SqlSame(r.ac_number, g.key[1]) /\ SqlSame(r.part_number, g.key[2])
               /\ SqlSame(r.sl_no, g.key[3]) /\ SqlSame(r.voter_name, g.key[4])
               /\ r.rowid # g.keep_id}

\* detect_duplicates lines 124-133 without district and ac: the keys of the
\* groups of exact duplicates with their counts (fewer than LIMIT 20 here)
detect_duplicates(t) ==
    {[key |-> g.key, dup_count |-> g.dup_count] : g \in FindDuplicates(t)}

\* The keys of the rows: sl_no and voter_name vary, sl_no may be NULL
DupKeys ==
    {<<Some(<<"1", "4", "6">>), Some(<<"1">>), sl, nm>> :
        sl \in {None, Some(<<"1">>)}, nm \in {Some(<<"A">>), Some(<<"B">>)}}

DupRow(id, key) ==
    [rowid |-> id, ac_number |-> key[1], part_number |-> key[2],
     sl_no |-> key[3], voter_name |-> key[4]]

\* The tables of exactly n rows, with the rowids 1 .. n
RECURSIVE DupTablesOf(_)
DupTablesOf(n) ==
    IF n = 0 THEN {{}}
    ELSE {t \cup {DupRow(n, key)} : t \in DupTablesOf(n - 1), key \in DupKeys}

DupTables == UNION {DupTablesOf(n) : n \in 0 .. MaxDupRows}

DupInit ==
    /\ OtherThanDupIdle
    /\ dup_rows \in DupTables /\ dup_before = dup_rows
    /\ duplicates = {} /\ removed = 0 /\ exact_dupes = {}
    /\ qpc = "call"

\* Lines 180-192: the SELECT; return when it finds no group
RemoveFind ==
    /\ qpc = "call"
    /\ duplicates' = FindDuplicates(dup_rows)
    /\ qpc' = IF FindDuplicates(dup_rows) = {} THEN "returned" ELSE "delete"
    /\ UNCHANGED <<dup_rows, dup_before, removed, exact_dupes>>
    /\ UNCHANGED OtherThanDup

\* Lines 195-204: the DELETE of one group; the SELECT has no ORDER BY, the
\* groups come in any order
RemoveGroup ==
    /\ qpc = "delete"
    /\ \E g \in duplicates :
         /\ dup_rows' = dup_rows \ DeletedBy(dup_rows, g)
         /\ removed' = removed + Cardinality(DeletedBy(dup_rows, g))
         /\ duplicates' = duplicates \ {g}
    /\ UNCHANGED <<dup_before, exact_dupes, qpc>>
    /\ UNCHANGED OtherThanDup

\* Lines 206-209: commit and return
RemoveCommit ==
    /\ qpc = "delete" /\ duplicates = {}
    /\ qpc' = "returned"
    /\ UNCHANGED <<dup_rows, dup_before, duplicates, removed, exact_dupes>>
    /\ UNCHANGED OtherThanDup

\* main line 365: detect_duplicates after the removal
DetectAfterRemoval ==
    /\ qpc = "returned"
    /\ exact_dupes' = detect_duplicates(dup_rows)
    /\ qpc' = "detected"
    /\ UNCHANGED <<dup_rows, dup_before, duplicates, removed>>
    /\ UNCHANGED OtherThanDup

DupNext == RemoveFind \/ RemoveGroup \/ RemoveCommit \/ DetectAfterRemoval

SpecDedupe == DupInit /\ [][DupNext]_vars

(***************************************************************************)
(* Claims about the glyph decoder.                                         *)
(***************************************************************************)
\* The table of indexed codes as the specification states it.
ClaimCidImage(n) ==
    CASE n \in 19..28 -> <<DigitSeq[n - 18]>>
      [] n = 17 -> <<".">>
      [] n \in {16, 18} -> <<"/">>
      [] n = 15 -> <<" ">>
      [] n = 29 -> <<":">>
      [] OTHER -> <<>>

IsSingleGroup(t, n) == t = CidGroup(n) \/ t = CidWGroup(n)

\* C2, for scripts' decode_text alone: when the loop has consumed an input that
\* is one group (cid:N) or (cidW:N), the joined pieces, before whitespace is
\* collapsed, are the specified image of N.
C2_ScriptsDecoderTable ==
    \A n \in 0..MaxCid :
        (callee = "decode_text" /\ pass = 1 /\ dpc = "scan" /\ i >= Len(text)
         /\ IsSingleGroup(text, n))
        => Flatten(decoded) = ClaimCidImage(n)

\* C2: for every number N, decoding the single group (cid:N) or (cidW:N)
\* yields the specified image of N (the digit N-19, '.', '/', space, ':' or
\* nothing), by scripts' decode_text and by TextExtractor.decode_text with
\* nothing configured.
C2_EveryDecoderTable ==
    /\ C2_ScriptsDecoderTable
    /\ \A n \in 0..MaxCid :
        (callee = "TextExtractor" /\ pass = 1 /\ dpc = "done"
         /\ ext_cfg = DefaultExtraction /\ IsSingleGroup(first_in, n))
        => result = ClaimCidImage(n)

\* The substitution table as the specification states it: D..Z to the
\* lowercase letter three positions earlier, the 23 characters from '$' to
\* ':' in order to A..W, backslash to y, identity elsewhere.
PunctSeq == <<"$", "%", "&", "'", "(", ")", "*", "+", ",", "-", ".", "/",
              "0", "1", "2", "3", "4", "5", "6", "7", "8", "9", ":">>

ClaimCharImage(c) ==
    IF c \in {UpperSeq[k] : k \in 4..26} THEN LowerSeq[IndexIn(UpperSeq, c) - 3]
    ELSE IF c \in Range(PunctSeq) THEN UpperSeq[IndexIn(PunctSeq, c)]
    ELSE IF c = "\\" THEN "y"
    ELSE c

\* C3: every non-whitespace character that decode_text handles outside a
\* group (an iteration that did not consume a group) contributes exactly its
\* specified image, and a one-character input decodes to that image.
C3_CharTable ==
    /\ (callee = "decode_text" /\ dpc = "scan" /\ prev_i >= 0
        /\ ~IsGroupAt(text, prev_i) /\ text[prev_i + 1] # " ")
       => /\ i = prev_i + 1
          /\ decoded[Len(decoded)] = <<ClaimCharImage(text[prev_i + 1])>>
    /\ \A c \in Alphabet \ {" "} :
        (callee = "decode_text" /\ pass = 1 /\ dpc = "done" /\ first_in = <<c>>)
        => result = <<ClaimCharImage(c)>>

\* C3 witness: the last letter of the table was decoded, Z to w.
C3_Witness ==
    /\ callee = "decode_text" /\ pass = 1 /\ dpc = "done"
    /\ first_in = <<"Z">> /\ result = <<"w">>

\* C4, progress: every iteration of the scan moves the position forward.
C4_PositionIncreases ==
    (callee = "decode_text" /\ dpc = "scan" /\ prev_i >= 0) => i > prev_i

\* C4, termination: every call of decode_text ends, by returning or raising.
C4_CallEnds == (dpc = "scan") ~> (dpc \in {"done", "raised"})

\* C4: decode_text raises nothing on any input, and the position strictly
\* increases at every step of the scan.
C4_NeverRaises == dpc # "raised" /\ C4_PositionIncreases

\* A text with no indexed-code group and no character of the table.
Untouched(x) == \A k \in DOMAIN x : x[k] \notin DOMAIN char_map

\* C5: for every x without groups and without mapped characters,
\* decode(decode(x)) = decode(x).
C5_Idempotent ==
    (callee = "decode_text" /\ pass = 2 /\ dpc = "done" /\ Untouched(first_in))
    => result = first_out

\* C5 witness: an untouched text whose whitespace was collapsed has been
\* decoded twice.
C5_Witness ==
    /\ callee = "decode_text" /\ pass = 2 /\ dpc = "done"
    /\ first_in = <<"x", " ", " ", "A", " ">>
    /\ first_out = <<"x", " ", "A">> /\ result = first_out

(***************************************************************************)
(* Claims about age extraction.                                            *)
(***************************************************************************)
\* The candidates of one part in the order the code tries them: the value of
\* its pair of indexed codes, then its cleaned number.
PartCandidates(part) ==
    (IF PairAge(part) >= 0 THEN <<PairAge(part)>> ELSE <<>>)
    \o (IF CleanedAge(part) >= 0 THEN <<CleanedAge(part)>> ELSE <<>>)

RECURSIVE CandidatesFrom(_, _)
CandidatesFrom(parts, k) ==
    IF k >= Len(parts) THEN <<>>
    ELSE PartCandidates(parts[k + 1]) \o CandidatesFrom(parts, k + 1)

InClaimedRange(v) == v \in 18..120

ClaimNormalize(x) ==
    LET r == SelectSeq(x, LAMBDA c : c \notin {"/", " "})
        rem == IF Len(r) >= 2 /\ r[1] = "W" /\ r[2] = "B" THEN SubSeq(r, 3, Len(r)) ELSE r
    IN  IF Len(rem) >= 11
        THEN <<"W", "B", "/">> \o SubSeq(rem, 1, 2) \o <<"/">> \o SubSeq(rem, 3, 5)
             \o <<"/">> \o SubSeq(rem, 6, Len(rem))
        ELSE <<"W", "B", "/">> \o rem

ExampleEpicFormatted ==
    <<"W", "B", "/", "1", "2", "/", "3", "4", "5", "/", "6", "7", "8", "9", "0", "1", "2", "3">>

C1_ExampleYieldsRecord ==
    (xpc = "done" /\ doc = << <<ExampleLine>> >>) =>
        /\ Len(voters) = 1
        /\ voters[1].relationship = "Father"
        /\ voters[1].voter_name = <<"R", "A", "M", " ", "K", "U", "M", "A", "R", " ", "D", "A", "S">>
        /\ voters[1].relation_name = <<"S", "H", "Y", "A", "M", " ", "D", "A", "S">>
        /\ voters[1].sex = "M"
        /\ voters[1].age = <<"5", "2">>
        /\ voters[1].epic_no = ExampleEpicFormatted

\* C6: a step on a line that splits into fewer than 5 whitespace tokens
\* leaves the list of voter records as it was, whatever markers the line
\* holds.
C6_ShortLineNoRecord ==
    [][(xpc = "line" /\ ln <= Len(doc[pg]) /\ Len(Split(CurLine)) < 5)
          => voters' = voters]_vars

\* C6 witness: a line of 4 tokens that holds a relationship marker has been
\* processed and no record was appended.
C6_Witness ==
    /\ xpc = "line" /\ ln = 2 /\ Len(doc[pg]) = 1
    /\ Len(Split(doc[pg][1])) = 4 /\ HasMarker(doc[pg][1])
    /\ voters = <<>>

\* The records emitted so far have a non-empty decoded voter name and one of
\* the four relationships.
C7_EmittedRecordsValid ==
    \A k \in DOMAIN voters :
        /\ voters[k].voter_name # <<>>
        /\ voters[k].relationship \in {"Father", "Husband", "Mother", "Wife"}

\* The decoded voter name of the line is empty, or its relationship did not
\* resolve.
NameOrRelationshipMissing(line) ==
    \/ /\ ~decode_text(VoterNameEncoded(Split(line))).raised
       /\ decode_text(VoterNameEncoded(Split(line))).val = <<>>
    \/ /\ ~RelScan(Split(line), 0).raised
       /\ RelScan(Split(line), 0).relationship = ""

\* C7 as stated: every emitted record has a non-empty decoded voter name and
\* a relationship among Father, Husband, Mother, Wife, and the extraction
\* does not stop with an error on a line whose decoded voter name is empty
\* or whose relationship did not resolve.
C7_DiscardedWithoutError ==
    /\ C7_EmittedRecordsValid
    /\ xpc = "raised" => ~(IsVoterLine(CurLine) /\ NameOrRelationshipMissing(CurLine))

(***************************************************************************)
(* Claims about the reconciliation score.                                  *)
(***************************************************************************)
\* The value is present: neither missing nor null (nor blank).
ClaimPresent(v) == v.kind = "str" /\ Strip(v.s) # <<>>

\* The configured fields present on both sides, in order.
ClaimFields(local, api) ==
    SelectSeq(compare_fields, LAMBDA f : ClaimPresent(local[f]) /\ ClaimPresent(api[f]))

\* The unweighted mean of the per-field scores of those fields, 0 when there
\* is none.
ClaimMean(local, api) ==
    LET fields == ClaimFields(local, api)
    IN  Mean([k \in DOMAIN fields |->
                FieldScore(fields[k], Normalized(local[fields[k]]), Normalized(api[fields[k]]))])

HasNull(d) == \E k \in DOMAIN compare_fields : d[compare_fields[k]] = Null

\* C10 as stated: once a payload has been compared, match_score is the
\* unweighted mean of the per-field scores of exactly the configured fields
\* present on both sides, a missing or null value contributing nothing; with
\* no comparable field the score is 0.0, the voter is not valid and no error
\* is recorded.
C10_MeanOverPresentFields ==
    (vpc = "done" /\ val_result.api_data = "payload") =>
        /\ val_result.match_score = ClaimMean(local_voter, api_data)
        /\ ClaimFields(local_voter, api_data) = <<>> =>
               /\ val_result.match_score = Zero
               /\ ~val_result.valid
               /\ val_result.error = "None"

\* The same holds of the calls in which no compared value is null on either
\* side.
C10_MeanWhenNoValueIsNull ==
    (vpc = "done" /\ val_result.api_data = "payload"
        /\ ~HasNull(local_voter) /\ ~HasNull(api_data)) =>
        /\ val_result.match_score = ClaimMean(local_voter, api_data)
        /\ ClaimFields(local_voter, api_data) = <<>> =>
               /\ val_result.match_score = Zero
               /\ ~val_result.valid
               /\ val_result.error = "None"

ScoreAbsent(r) == "match_score" \notin DOMAIN r

\* C12 as stated: a result of a lookup that gave no payload or that failed
\* carries no match_score.
C12_NoScoreWithoutPayload ==
    (vpc = "done" /\ val_result.api_data = "None") => ScoreAbsent(val_result)

\* Such a result has the match_score 0.0 with which line 63 creates it.
C12_ZeroScoreWithoutPayload ==
    (vpc = "done" /\ val_result.api_data = "None") =>
        /\ val_result.match_score = Zero /\ ~val_result.valid
        /\ val_result.error # "None"

\* Lines 147-155: every attempt of the lookup met an exception of the request
\* (a timeout is one) or a status that is retried
FailedEveryAttempt(script) ==
    /\ Len(script) = retry_attempts
    /\ \A k \in 1 .. Len(script) : IsRetried(script[k])

\* Lines 128-145: the lookup got an answer, and the answer holds no voter
CompletedWithoutPayload(script) ==
    /\ script # <<>>
    /\ script[Len(script)] \in {"failure", "not_found"}

\* C13 as stated: a voter whose lookup failed on every attempt and a voter
\* whose lookup completed with no payload never get the same outcome, and
\* the report counts them in different counters: the first adds to errors and
\* the second does not.
C13_FailedLookupIsNotNotFound ==
    \A a, b \in 1 .. Len(report.results) :
        (FailedEveryAttempt(batch[a].script) /\ CompletedWithoutPayload(batch[b].script)) =>
            /\ report.results[a].result.error # report.results[b].result.error
            /\ (bpc = "done" /\ Len(report.results) = 2 /\ a # b) => report.errors = 1

\* C13, what the code does: both voters get the error "Voter not found in
\* API" and both add to errors.
C13_FailedLookupReportedAsNotFound ==
    \A a \in 1 .. Len(report.results) :
        (FailedEveryAttempt(batch[a].script) \/ CompletedWithoutPayload(batch[a].script)) =>
            /\ report.results[a].result.error = "Voter not found in API"
            /\ report.errors >= 1

\* The key of a row: (epic_number, ac_number, part_number, serial_number)
RowKey(r) == <<r.epic_number, r.ac_number, r.part_number, r.serial_number>>

\* C16 as stated: after any sequence of inserts the table voters holds at
\* most one row for a key, a key without EPIC number (NULL) included.
C16_AtMostOneRowPerKey ==
    \A a, b \in 1 .. Len(rows) : RowKey(rows[a]) = RowKey(rows[b]) => a = b

\* C16, what the code does: at most one row for a key that has an EPIC
\* number, and an insert that returned None left the number of rows as it
\* was; two rows of one key exist only for a key whose EPIC number is NULL.
C16_AtMostOneRowPerKeyWithEpic ==
    \A a, b \in 1 .. Len(rows) :
        (RowKey(rows[a]) = RowKey(rows[b]) /\ rows[a].epic_number # None) => a = b

\* C16 as stated, for save_voters_to_db: after the same list of voters has
\* been saved twice, the table holds the rows of one save and no error was
\* raised.
C16_SavedTwiceAsOnce ==
    \A vs \in VoterLists :
        (calls = 2 /\ roll = save_voters_to_db(save_voters_to_db(<<>>, vs, roll_unique).rows,
                                               vs, roll_unique).rows) =>
            /\ roll = save_voters_to_db(<<>>, vs, roll_unique).rows
            /\ ~roll_raised

(***************************************************************************)
(* The two loops over voters in one specification: a behaviour is one call *)
(* of validate_batch or one call of verify_assembly_constituency.          *)
(***************************************************************************)
SpecLoops == (BatchInit \/ VerifyInit) /\ [][BatchNext \/ VerifyNext]_vars

\* validator.py lines 142-157 and 96-98: the lookup of a voter fails, by a
\* request exception or a retried status on every attempt or by an exception
\* that leaves the lookup
LookupFailed(script) ==
    \/ FailedEveryAttempt(script)
    \/ script # <<>> /\ script[Len(script)] \in {"other_exception", "blank_exception"}

\* verify_with_api.py lines 125-130 and 169-174: the lookup of verify_voter
\* fails
VerifyLookupFailed(response) == response.kind \in {"status", "timeout", "exception"}

\* C14, validate_batch: a step that ends the processing of a voter adds one
\* entry to results, for the voter at that place of the input, and a voter
\* whose lookup failed is not counted as valid and adds one to errors (to
\* invalid when the exception has no text).
C14_BatchStep ==
    vidx' = vidx + 1 =>
        /\ Len(report'.results) = Len(report.results) + 1
        /\ Len(report'.results) = vidx
        /\ report'.results[vidx].voter = ToValidate[vidx].voter
        /\ report'.validated = report.validated + 1
        /\ LookupFailed(ToValidate[vidx].script) =>
              /\ report'.valid = report.valid
              /\ report'.errors + report'.invalid = report.errors + report.invalid + 1
              /\ ToValidate[vidx].script[Len(ToValidate[vidx].script)] # "blank_exception" =>
                    report'.errors = report.errors + 1
        /\ bpc' # "done"

\* C14, verify_assembly_constituency: a step that ends the processing of a
\* voter is for the voter at that place of the list and sends one request; a
\* voter whose lookup failed is not counted as verified and adds one to
\* not_found or to errors, a voter whose status could not be persisted adds
\* one to errors.
C14_VerifyStep ==
    pos' = pos + 1 =>
        /\ attempted' # None /\ attempted'[1].id = ac_voters[pos].id
        /\ VerifyLookupFailed(attempted'[1].response) =>
              /\ stats'.verified = stats.verified
              /\ stats'.not_found + stats'.errors > stats.not_found + stats.errors
        /\ attempted'[1].raised # "no" => stats'.errors = stats.errors + 1
        /\ cpc' = "loop"

\* C14, the end of both loops: the call returns only after the last voter
\* has been processed.
C14_AllProcessed ==
    /\ bpc = "done" => Len(report.results) = Len(ToValidate)
    /\ cpc = "done" => pos = Len(ac_voters) + 1

\* C14: in validate_batch and in verify_assembly_constituency a failure for
\* one voter never ends the loop: every voter is processed once, in the order
\* of the input, and each failed voter is counted as a failure.
C14_FailureNeverEndsTheLoop ==
    []C14_AllProcessed /\ [][C14_BatchStep /\ C14_VerifyStep]_vars

\* C14 witness: verify_assembly_constituency has returned after two voters,
\* the status of the first could not be persisted and the lookup of the
\* second timed out.
C14_Witness ==
    /\ cpc = "done" /\ Len(ac_voters) = 2
    /\ stats.errors = 1 /\ stats.not_found = 1
    /\ attempted[1].response.kind = "timeout" /\ attempted[1].raised = "no"

\* The columns of a row other than the three verification columns
FieldContent(r) == [c \in DOMAIN r \ {"verified", "verification_date", "api_data"} |-> r[c]]

\* What api_data of a row is to hold after an attempt: the encoded payload of
\* the attempt, NULL when the attempt has no payload or an empty one
StoredPayload(payload) ==
    IF payload = None THEN None
    ELSE IF payload[1] = [has_keys |-> FALSE, epicNumber |-> <<>>] THEN None
    ELSE Some([json |-> payload[1]])

\* C17: a step of verify_assembly_constituency that marks a voter changes
\* only verified, verification_date and api_data of the row with the id of
\* that voter; the row then holds the status and the payload of this attempt
\* alone, with api_data NULL when the attempt has no payload (or an empty
\* one); a step that marks no voter changes no row.
C17_MarkStep ==
    /\ Len(rows') = Len(rows)
    /\ (attempted' = attempted \/ attempted'[1].raised = "mark") => rows' = rows
    /\ (attempted' # attempted /\ attempted'[1].raised # "mark") =>
          \A k \in 1 .. Len(rows) :
              /\ FieldContent(rows'[k]) = FieldContent(rows[k])
              /\ rows[k].id # attempted'[1].id => rows'[k] = rows[k]
              /\ rows[k].id = attempted'[1].id =>
                    /\ rows'[k].verified = Some(attempted'[1].result.verified)
                    /\ rows'[k].verification_date = Some(now)
                    /\ rows'[k].api_data = StoredPayload(attempted'[1].result.api_data)

C17_OnlyVerificationOfOneRow == [][C17_MarkStep]_vars

\* C17 witness: a row that held the payload of an earlier attempt has been
\* marked by an attempt without payload and holds none.
C17_Witness ==
    \E k \in 1 .. Len(rows) :
        /\ attempted # None /\ attempted[1].id = rows[k].id
        /\ Len(committed) = Len(rows) /\ committed[k].api_data # None
        /\ rows[k].api_data = None /\ rows[k].verified = Some(FALSE)
        /\ Len(rows) = 2

\* The decoded text of the last section header among the lines of document
\* d up to line l of page p, the pages before p included; empty when there is
\* none
RECURSIVE SectionBefore(_, _, _)
SectionBefore(d, p, l) ==
    IF p < 1 THEN <<>>
    ELSE IF l < 1
    THEN IF p = 1 THEN <<>> ELSE SectionBefore(d, p - 1, Len(d[p - 1]))
    ELSE IF ~IsHeaderLine(d[p][l]) /\ ~decode_text(d[p][l]).raised /\ IsSectionLine(d[p][l])
    THEN decode_text(d[p][l]).val
    ELSE SectionBefore(d, p, l - 1)

\* C15 as stated: the section_info of a record that is emitted is the
\* decoded text of the most recent section header before its line in the
\* document, a header of an earlier page included.
C15_SectionOfMostRecentHeader ==
    [][Len(voters') = Len(voters) + 1 =>
          voters'[Len(voters')].section_info = SectionBefore(doc, pg, ln - 1)]_vars

\* C15, what the code does: the section_info of a record is the decoded text
\* of the most recent section header before its line on the same page, and
\* empty when the page has none before the line.
C15_SectionOfSamePage ==
    [][Len(voters') = Len(voters) + 1 =>
          voters'[Len(voters')].section_info = SectionBefore(<<doc[pg]>>, 1, ln - 1)]_vars

(***************************************************************************)
(* Claims about the fields of a voter line.                                *)
(***************************************************************************)
\* The relationship a token stands for: the first of father, husband, mother
\* and wife that the token holds as it is, or decoded, in lower case
ClaimKind(part) ==
    LET raw == Lower(part)
        dec == Lower(decode_text(part).val)
    IN  IF Contains(raw, s_father) \/ Contains(dec, s_father) THEN "Father"
        ELSE IF Contains(raw, s_husband) \/ Contains(dec, s_husband) THEN "Husband"
        ELSE IF Contains(raw, s_mother) \/ Contains(dec, s_mother) THEN "Mother"
        ELSE IF Contains(raw, s_wife) \/ Contains(dec, s_wife) THEN "Wife"
        ELSE ""

\* The 0-based index of the first token that stands for a relationship, -1
\* when there is none
ClaimRelIdx(parts) ==
    LET hits == {j \in 0 .. (Len(parts) - 1) : ClaimKind(parts[j + 1]) # ""}
    IN  IF hits = {} THEN -1 ELSE CHOOSE j \in hits : \A m \in hits : j <= m

\* The step processes a line of at least 5 tokens that is neither a header
\* nor a section header, and nothing raises
VoterLineStep ==
    /\ xpc = "line" /\ ln <= Len(doc[pg]) /\ ln' = ln + 1
    /\ IsVoterLine(CurLine) /\ Len(Split(CurLine)) >= MinParts

\* The step appends a record
EmitStep == Len(voters') = Len(voters) + 1

\* C18 as stated: on a line of at least 5 tokens, when some token holds a
\* marker the record of the line has the relationship of the first such
\* token (unless the line has no voter name), and when no token holds a
\* marker the line gives no record.
C18_RelationshipOfFirstMarker ==
    [][VoterLineStep =>
          LET parts == Split(CurLine)
          IN  IF ClaimRelIdx(parts) = -1 THEN voters' = voters
              ELSE \/ /\ EmitStep
                      /\ voters'[Len(voters')].relationship =
                            ClaimKind(parts[ClaimRelIdx(parts) + 1])
                   \/ decode_text(VoterNameEncoded(parts)).val = <<>>]_vars

\* C18, what the code does: a record is appended only for a line that holds
\* one of the markers of lines 196-198, none of them for Wife, and its
\* relationship is that of the first token that holds an obfuscated marker or
\* decodes to text with a marker in lower case; a plain-text marker resolves
\* nothing.
C18_RelationshipOfGatedLine ==
    [][(VoterLineStep /\ EmitStep) =>
          /\ HasMarker(CurLine)
          /\ voters'[Len(voters')].relationship = RelScan(Split(CurLine), 0).relationship
          /\ \A j \in 1 .. Len(Split(CurLine)) :
                j < RelScan(Split(CurLine), 0).rel_idx + 1 => RelOfPart(Split(CurLine)[j]) = ""]_vars

\* The voter-name span of the tokens for relationship index r
ClaimName(parts, r) == IF r > 2 THEN JoinSpace(SubSeq(parts, 3, r)) ELSE parts[3]

\* C19 as stated: the encoded voter name of a record is tokens[2:relIdx]
\* joined with spaces when relIdx > 2 and token 2 otherwise, relIdx being the
\* index at which the relationship was resolved, and the name span holds
\* neither the token at relIdx nor a token after it.
C19_NameEndsAtRelIdx ==
    [][(VoterLineStep /\ EmitStep) =>
          LET parts == Split(CurLine)
              r == RelScan(parts, 0).rel_idx
          IN  /\ voters'[Len(voters')].voter_name_encoded = ClaimName(parts, r)
              /\ r > 2]_vars

\* C19, what the code does: the name span ends at rel_start_idx, the first
\* token from index 2 on that holds one of six raw markers, which need not
\* be the index at which the relationship was resolved.
C19_NameEndsAtRelStartIdx ==
    [][(VoterLineStep /\ EmitStep) =>
          voters'[Len(voters')].voter_name_encoded =
              ClaimName(Split(CurLine), RelStartIdx(Split(CurLine)))]_vars

\* The sex a token stands for at 0-based index j: M or F for the literal
\* tokens, M for 0 and F for ) directly after a token of more than 2
\* characters, "" otherwise
ClaimSexOf(parts, j) ==
    IF parts[j + 1] = <<"M">> THEN "M"
    ELSE IF parts[j + 1] = <<"F">> THEN "F"
    ELSE IF j > 0 /\ Len(parts[j]) > 2 /\ parts[j + 1] = <<"0">> THEN "M"
    ELSE IF j > 0 /\ Len(parts[j]) > 2 /\ parts[j + 1] = <<")">> THEN "F"
    ELSE ""

\* The index of the first sex marker after index r, -1 when there is none
ClaimSexIdx(parts, r) ==
    LET hits == {j \in (r + 1) .. (Len(parts) - 1) : ClaimSexOf(parts, j) # ""}
    IN  IF hits = {} THEN -1 ELSE CHOOSE j \in hits : \A m \in hits : j <= m

\* C20 as stated: the sex of a record is that of the first sex marker after
\* relIdx, the relation-name span is tokens[relIdx+1:sexIdx] for the index
\* of that same token, and no token at or before relIdx determines the sex.
C20_SexOfFirstMarkerAfterRelIdx ==
    [][(VoterLineStep /\ EmitStep) =>
          LET parts == Split(CurLine)
              r == RelScan(parts, 0).rel_idx
              s == ClaimSexIdx(parts, r)
          IN  IF s = -1 THEN voters'[Len(voters')].sex = ""
              ELSE /\ voters'[Len(voters')].sex = ClaimSexOf(parts, s)
                   /\ voters'[Len(voters')].relation_name_encoded =
                         JoinSpace(SubSeq(parts, r + 2, s))]_vars

\* C20, what the code does: the sex is that of the first sex marker of the
\* whole line, from index 0 on, and the relation-name span ends at sex_idx,
\* which is looked for from relIdx + 2 on without the test on the token
\* before.
C20_SexOfFirstMarkerOfLine ==
    [][(VoterLineStep /\ EmitStep) =>
          LET parts == Split(CurLine)
              s == ClaimSexIdx(parts, -1)
          IN  voters'[Len(voters')].sex = IF s = -1 THEN "" ELSE ClaimSexOf(parts, s)]_vars

(***************************************************************************)
(* Claims of the last group.                                               *)
(***************************************************************************)
\* Lines 107-117: the call returned the value of the pair of indexed codes
\* of the part at age_i
ReturnedPairAge ==
    /\ apc = "done" /\ age_i < Len(age_parts)
    /\ PairAge(age_parts[age_i + 1]) >= 0 /\ AgeInRange(PairAge(age_parts[age_i + 1]))

\* The number of an indexed code is that of a digit
IsDigitCid(n) == 19 <= n /\ n <= 28

\* C21 as stated: an age is taken from a pair of indexed codes only when
\* both numbers are in 19..28, and it is then tens * 10 + ones of the two
\* digits.
C21_PairAgeOnlyFromDigits ==
    ReturnedPairAge =>
        LET cids == FindAllCid(age_parts[age_i + 1], 0)
        IN  /\ IsDigitCid(cids[1]) /\ IsDigitCid(cids[2])
            /\ age_out = PyStr((cids[1] - 19) * 10 + (cids[2] - 19))

\* C21, what the code does: when both numbers are in 19..28 the age is
\* tens * 10 + ones of the two digits; a number outside 19..28 is used as it
\* is, as tens or as ones.
C21_PairAgeOfDigitsOrNumbers ==
    ReturnedPairAge =>
        LET cids == FindAllCid(age_parts[age_i + 1], 0)
            tens == IF IsDigitCid(cids[1]) THEN cids[1] - 19 ELSE cids[1]
            ones == IF IsDigitCid(cids[2]) THEN cids[2] - 19 ELSE cids[2]
        IN  age_out = PyStr(tens * 10 + ones)

\* C22 as stated: the age of a record whose line has a sex marker comes from
\* a token after sexIdx, never from a token at or before it.
C22_AgeAfterSexIdx ==
    [][(VoterLineStep /\ EmitStep) =>
          LET parts == Split(CurLine)
              r == RelScan(parts, 0).rel_idx
              s == SexIdx(parts, r)
          IN  s # -1 =>
                 voters'[Len(voters')].age = parse_age_from_parts(parts, s + 1).val]_vars

\* C22, what the code does: the age is looked for from index relIdx + 2 on,
\* the second token of the relation-name span, whatever sexIdx is.
C22_AgeFromSecondTokenAfterRelIdx ==
    [][(VoterLineStep /\ EmitStep) =>
          LET parts == Split(CurLine)
              r == RelScan(parts, 0).rel_idx
          IN  voters'[Len(voters')].age = parse_age_from_parts(parts, r + 2).val]_vars

\* The text a(cid:N)Z: one character, one indexed-code group, one character.
AroundGroup(n) == <<"a">> \o CidGroup(n) \o <<"Z">>

\* The first call of a decoder on a(cid:N)Z has returned.
DecodedAroundGroup(n) == pass = 1 /\ dpc = "done" /\ first_in = AroundGroup(n)

\* What TextExtractor's table gives for the group (cid:N), the group itself
\* when the table has no entry for N.
ExtractorGroupImage(n, cfg) ==
    LET cm == build_cid_mappings(cfg.cid_mappings)
    IN  IF PyStr(n) \in DOMAIN cm THEN cm[PyStr(n)] ELSE CidGroup(n)

\* C23, for scripts' decode_text: the result for a(cid:N)Z is the image of
\* 'a', then the table image of the group as it is, then the image of 'Z';
\* neither the image of the group nor the characters of the group go through
\* the character substitution.
C23_ScriptsOneScan ==
    \A n \in 0..MaxCid :
        (callee = "decode_text" /\ DecodedAroundGroup(n)) =>
            result = Finish(<< <<CharImage("a")>>, CidImage(n), <<CharImage("Z")>> >>)

\* C23: in every decoder, scripts' decode_text and TextExtractor.decode_text
\* with any configuration, the image of a group is not substituted again
\* ((cid:19) yields '0') and the characters of a group are not substituted
\* one by one.
C23_EveryDecoderOneScan ==
    /\ C23_ScriptsOneScan
    /\ \A n \in 0..MaxCid :
        (callee = "TextExtractor" /\ DecodedAroundGroup(n)) =>
            result = MapChars(<<"a">>, ext_cfg.char_mappings)
                     \o ExtractorGroupImage(n, ext_cfg)
                     \o MapChars(<<"Z">>, ext_cfg.char_mappings)

\* The compared fields whose raw values differ, in the configured order, each
\* with its local and its remote value.
ClaimDifferences(local, api) ==
    LET fields == SelectSeq(compare_fields,
                      LAMBDA f : IsCompared(local, api, f) /\ Get(local[f]) # Get(api[f]))
    IN  [k \in DOMAIN fields |->
            [field |-> fields[k], local |-> Get(local[fields[k]]), api |-> Get(api[fields[k]])]]

\* C24 as stated: once a payload has been compared, valid or not, the
\* differences are exactly the compared fields whose raw local and remote
\* values differ, in the configured order, each with both values; a field
\* left out of the score because one side has no value is not listed.
C24_DifferencesOfComparedFields ==
    (vpc = "done" /\ val_result.api_data = "payload") =>
        val_result.differences = ClaimDifferences(local_voter, api_data)

\* What holds: the compared fields that differ are all listed, in the
\* configured order and with both values, among the differences, valid or
\* not; the other entries are fields that the score left out.
C24_ComparedDifferencesAmongListed ==
    (vpc = "done" /\ val_result.api_data = "payload") =>
        SelectSeq(val_result.differences,
                  LAMBDA d : IsCompared(local_voter, api_data, d.field))
            = ClaimDifferences(local_voter, api_data)

\* A step that issues one request of the lookup of the current voter.
RequestStep == bpc = "fetch" /\ attempt < retry_attempts /\ events' # events

\* The response that request meets.
RequestResponse == ToValidate[vidx].script[attempt + 1]

\* After a request that failed: another attempt after a wait of retry_delay
\* while attempts remain, no wait after the last attempt.
NextAttemptFollows ==
    IF attempt < retry_attempts - 1
    THEN /\ bpc' = "fetch" /\ attempt' = attempt + 1
         /\ events' = events \o <<"request", "retry_sleep">>
    ELSE /\ attempt' = retry_attempts
         /\ events' = Append(events, "request")

\* The lookup never issues more than retry_attempts requests and stops at the
\* first successful response.
BoundedAndStopsAtSuccess ==
    /\ attempt < retry_attempts
    /\ RequestResponse = "success" => (bpc' = "tally" /\ fetched' = "payload")

\* C25 as stated: a lookup issues at most retry_attempts requests; every
\* response that is no success (a 200 with another status, a 404, any other
\* status code) and every exception of the request is followed by another
\* attempt while attempts remain, after a wait of retry_delay, with no wait
\* after the last attempt; the lookup stops at the first successful response.
C25_EveryFailureRetried ==
    [][RequestStep =>
        /\ BoundedAndStopsAtSuccess
        /\ RequestResponse \in {"failure", "not_found", "server_error", "request_exception"}
              => NextAttemptFollows]_vars

\* What holds: the same of the status codes other than 200 and 404 and of the
\* exceptions of the request; a 200 with another status and a 404 end the
\* lookup at once.
C25_OtherStatusAndExceptionRetried ==
    [][RequestStep =>
        /\ BoundedAndStopsAtSuccess
        /\ RequestResponse \in {"server_error", "request_exception"} => NextAttemptFollows
        /\ RequestResponse \in {"failure", "not_found"} =>
              (bpc' = "tally" /\ fetched' = "none" /\ attempt' = attempt)]_vars

\* In the log, a delay lies between any two remote calls.
DelayBetween(log, call, delays) ==
    \A a \in 1 .. Len(log) : \A b \in (a + 1) .. Len(log) :
        (log[a] = call /\ log[b] = call) =>
            {c \in (a + 1) .. (b - 1) : log[c] \in delays} # {}

\* What holds, for validate_batch: a sleep lies between any two requests,
\* the retry_delay between the attempts of one lookup and the sleep of line
\* 278 between two voters.
C26_DelayBetweenRequestsOfBatch == DelayBetween(events, "request", {"sleep", "retry_sleep"})

\* C26 as stated: in both loops a delay lies between any two consecutive
\* remote calls, on every path through the loop body, the path on which
\* processing the voter raised an exception included.
C26_DelayBetweenCalls ==
    /\ C26_DelayBetweenRequestsOfBatch
    /\ DelayBetween(trace, "call", {"sleep"})

\* remove_exact_duplicates has returned.
RemovalReturned == qpc \in {"returned", "detected"}

\* A key of the table has a NULL component.
HasNullKey(t) == \E r \in t : \E c \in 1 .. 4 : GroupKey(r)[c] = None

\* What the removal is to leave of the table before: no two rows with the
\* same key, of each group of duplicates the row with the lowest rowid and
\* no other, every other row as it was, and no row that was not there.
Deduplicated(before, after) ==
    /\ \A x \in after : \A y \in after : x # y => GroupKey(x) # GroupKey(y)
    /\ \A g \in FindDuplicates(before) :
          GroupOf(after, g.key) = {r \in GroupOf(before, g.key) : r.rowid = g.keep_id}
    /\ \A r \in before :
          Cardinality(GroupOf(before, GroupKey(r))) = 1 => r \in after
    /\ after \subseteq before

\* C27 as stated: when remove_exact_duplicates has returned, the table is
\* deduplicated, and the detect_duplicates that follows reports no exact
\* duplicates; groups whose key has a NULL component included.
C27_NoDuplicatesAfterRemoval ==
    RemovalReturned =>
        /\ Deduplicated(dup_before, dup_rows)
        /\ qpc = "detected" => exact_dupes = {}

\* What holds: the same of the tables in which no key has a NULL component.
C27_NoDuplicatesWithoutNull ==
    (RemovalReturned /\ ~HasNullKey(dup_before)) =>
        /\ Deduplicated(dup_before, dup_rows)
        /\ qpc = "detected" => exact_dupes = {}

\* The smaller of two numbers.
Smaller(x, y) == IF x <= y THEN x ELSE y

\* The results list has one entry per validated voter, in the order of the
\* voters given.
ResultsInInputOrder ==
    /\ Len(report.results) = report.validated
    /\ \A k \in 1 .. Len(report.results) :
          k <= Len(batch) /\ report.results[k].voter = batch[k].voter

\* What holds when validate_batch has returned: validated is the sum of
\* valid, invalid and errors and the length of voters_to_validate, which for
\* a sample size that is not negative is the smaller of the number of voters
\* and the sample size; the results are in input order; total_voters is the
\* number of voters given.
C28_ReportOfValidatedVoters ==
    bpc = "done" =>
        /\ report.validated = report.valid + report.invalid + report.errors
        /\ report.validated = Len(ToValidate)
        /\ sample_size >= 0 => report.validated = Smaller(Len(batch), sample_size)
        /\ ResultsInInputOrder
        /\ report.total_voters = Len(batch)

\* C28 as stated: when validate_batch has returned, validated is the sum of
\* valid, invalid and errors and the smaller of the number of voters given
\* and the sample size, the results list has one entry per validated voter in
\* input order, and total_voters is the number of voters given.
C28_ReportCounts ==
    bpc = "done" =>
        /\ report.validated = report.valid + report.invalid + report.errors
        /\ report.validated = Smaller(Len(batch), sample_size)
        /\ ResultsInInputOrder
        /\ report.total_voters = Len(batch)

\* C29 as stated: when verify_assembly_constituency has returned on a new
\* verifier, the four counters add up to total: every voter of the
\* constituency has raised exactly one of them, also when marking its row or
\* committing its batch failed.
C29_CountersAddUpToTotal ==
    cpc = "done" =>
        stats.verified + stats.not_found + stats.mismatch + stats.errors = stats.total

\* What holds: a step of the loop on which no commit raises adds one to
\* exactly one counter; the step on which the commit raises adds one to the
\* counter of the result and one to errors.
C29_OneCounterUnlessCommitRaises ==
    [][(cpc = "loop" /\ pos' = pos + 1) =>
        (stats'.verified + stats'.not_found + stats'.mismatch + stats'.errors)
          - (stats.verified + stats.not_found + stats.mismatch + stats.errors)
        = IF attempted'[1].raised = "commit" THEN 2 ELSE 1]_vars

\* The formatter that the call ran, as a function.
FormatterOf(fn, epic) ==
    IF fn = "utils" THEN utils_format_epic_number(epic)
    ELSE VoterParser_format_epic_number(epic)

\* Formatting the returned EPIC number again returns it unchanged.
IdempotentOnResult == FormatterOf(epic_fn, epic_out) = epic_out

\* C30 as stated: for every input string, the empty string included, the
\* two formatters return the same result, and each is idempotent.
C30_FormattersAgree ==
    epc = "done" =>
        /\ utils_format_epic_number(epic_in) = VoterParser_format_epic_number(epic_in)
        /\ epic_out = FormatterOf(epic_fn, epic_in)
        /\ IdempotentOnResult

\* What holds: the two formatters return the same result for every input
\* that is not empty, and each is idempotent on every input.
C30_FormattersAgreeOnNonEmpty ==
    epc = "done" =>
        /\ epic_in # <<>> =>
              utils_format_epic_number(epic_in) = VoterParser_format_epic_number(epic_in)
        /\ epic_out = FormatterOf(epic_fn, epic_in)
        /\ IdempotentOnResult

====
